---- MODULE Spec2Model ----
(***************************************************************************)
(* Model of the real-time messaging relay of the chat application:         *)
(* server/storage.ts (JSONStorage: the message ledger kept in memory and   *)
(* rewritten to messages.json on every mutation) and server/routes.ts      *)
(* (the WebSocket handlers, the clients registry and the pushes).          *)
(*                                                                         *)
(* Every handler is an async function: it runs to its first real I/O       *)
(* await in one step, stays suspended as a task while the I/O is in        *)
(* flight, and its continuation runs in one step when the I/O completes.   *)
(* Awaits on promises that resolve without I/O (await this.init() once     *)
(* the storage is initialised, reads of the in-memory ledger) do not let   *)
(* another handler or I/O completion in, so they are not suspension        *)
(* points of the model.                                                    *)
(***************************************************************************)
EXTENDS Integers, Sequences, FiniteSets, TLC

\* ------------------------------------------------------------- universes
Conns == {"c1", "c2"}                \* WebSocket connection objects
Ids == {"A", "B"}                    \* users of the users map
Nobody == "undefined"                \* ws.userId before auth (undefined)
NoConn == "none"                     \* clients.get(k) === undefined
NoText == "noText"                   \* message.content absent
NoFile == "noFile"                   \* message.fileUrl absent
TextOnly == [content |-> "hi", fileUrl |-> NoFile]
FileOnly == [content |-> NoText, fileUrl |-> "/uploads/f"]
Neither == [content |-> NoText, fileUrl |-> NoFile]
Payloads == {TextOnly, FileOnly, Neither}

VARIABLES
    readyState,   \* readyState[c]: "new" (not accepted yet), "open", "closing", "closed"
    userId,       \* userId[c]: ws.userId
    clients,      \* clients[k]: the clients Map, NoConn where k has no entry
    messages,     \* JSONStorage.messages, the in-memory ledger
    disk,         \* contents of messages.json (Untracked where a specification leaves them out)
    tasks,        \* handlers suspended at an I/O await
    sent,         \* pushes (ws.send calls) made by the last step, in order
    users,        \* JSONStorage.users, the in-memory Map of the user records
    usersFile,    \* contents of users.json (UsersUntracked where left out)
    initialized,  \* JSONStorage.initialized
    told          \* what the clients were last told (Unwatched where left out)

vars == <<readyState, userId, clients, messages, disk, tasks, sent,
         users, usersFile, initialized, told>>

\* ----------------------------------------------------- storage.ts (users)
\* users.get(id) === undefined: no record for this id.
NoUser == [status |-> "none", lastSeen |-> "none"]

\* The users Map without any record.
NoUsers == [u \in Ids |-> NoUser]

\* The value of users in the specifications that leave the users' records
\* out of the state: every id of Ids is a user there.
Unlisted == [u \in Ids |-> [status |-> "unlisted", lastSeen |-> "unlisted"]]

\* A user record. lastSeen is a reading of the clock (new Date()); it is
\* told apart by the call that read it: "created" for createUser, the
\* status written for updateUserStatus. No call writes null.
User(status, stamp) == [status |-> status, lastSeen |-> stamp]

\* this.users.get(uid) is a record.
HasUser(us, uid) ==
    /\ uid \in Ids
    /\ us = Unlisted \/ us[uid] # NoUser

\* createUser: a record with status "online" and lastSeen new Date().
createUser(us, uid) == [us EXCEPT ![uid] = User("online", "created")]

\* updateUserStatus: user.status = status, user.lastSeen = new Date(),
\* when the user exists.
updateUserStatus(us, uid, status) ==
    IF us # Unlisted /\ HasUser(us, uid)
    THEN [us EXCEPT ![uid] = User(status, status)]
    ELSE us

\* GET /api/users: online is status === "online" of the stored record.
Directory(us) ==
    [u \in { v \in Ids : us[v] # NoUser } |-> us[u].status = "online"]

\* saveUsers: Array.from(this.users.values()) holds the records that are
\* in the Map now, by reference; their fields are read when the array is
\* stringified.
Ref == [status |-> "ref", lastSeen |-> "ref"]
usersArray(us) == [u \in Ids |-> IF us[u] = NoUser THEN NoUser ELSE Ref]

\* JSON.stringify(usersArray): the fields the records have at this moment.
stringifyUsers(arr, us) ==
    [u \in Ids |-> IF arr[u] = NoUser THEN NoUser ELSE us[u]]

\* ------------------------------------------------------ storage.ts (pure)
Keys == Ids \cup {Nobody}            \* keys the clients Map can hold

\* NewMessage that takes senderId from the command when the command has one.
NewMessageKeepsClaim(id, sender, receiver, payload, ts) ==
    [id |-> id,
     senderId |-> IF "senderId" \in DOMAIN payload THEN payload.senderId
                  ELSE sender,
     receiverId |-> receiver,
     content |-> payload.content, fileUrl |-> payload.fileUrl,
     timestamp |-> ts, read |-> FALSE, isUnsent |-> FALSE]

\* The Message built by createMessage: id and timestamp assigned, read and
\* isUnsent false, the other fields copied from the InsertMessage.
NewMessage(id, sender, receiver, payload, ts) ==
    [id |-> id, senderId |-> sender, receiverId |-> receiver,
     content |-> payload.content, fileUrl |-> payload.fileUrl,
     timestamp |-> ts, read |-> FALSE, isUnsent |-> FALSE]

\* createMessage: this.messages.push(message).
createMessage(msgs, sender, receiver, payload, ts) ==
    Append(msgs, NewMessage(Len(msgs) + 1, sender, receiver, payload, ts))

\* new Date(), tick milliseconds after the last message was stamped (the
\* clock has millisecond ticks: two messages can get the same timestamp).
Now(msgs, tick) ==
    IF msgs = <<>> THEN tick ELSE msgs[Len(msgs)].timestamp + tick

\* UnsendMatch without its test of the requester.
UnsendMatchAnyone(m, mid, uid) == m.id = mid

\* The predicate of this.messages.find(...) in unsendMessage.
UnsendMatch(m, mid, uid) == m.id = mid /\ m.senderId = uid

\* Index of the message unsendMessage finds (the first match), 0 for none.
FindUnsend(msgs, mid, uid) ==
    LET hits == { i \in DOMAIN msgs : UnsendMatch(msgs[i], mid, uid) }
    IN  IF hits = {} THEN 0 ELSE CHOOSE i \in hits : \A j \in hits : i <= j

\* unsendMessage that removes the record it finds (a splice).
unsendMessageRemoves(msgs, mid, uid) ==
    LET i == FindUnsend(msgs, mid, uid)
    IN  IF i = 0 THEN msgs
        ELSE SubSeq(msgs, 1, i - 1) \o SubSeq(msgs, i + 1, Len(msgs))

\* unsendMessage, the mutation: message.isUnsent = true.
unsendMessage(msgs, mid, uid) ==
    LET i == FindUnsend(msgs, mid, uid)
    IN  IF i = 0 THEN msgs ELSE [msgs EXCEPT ![i].isUnsent = TRUE]

\* ReadMatch without its test of isUnsent.
ReadMatchMarksUnsent(m, sender, receiver) ==
    m.senderId = sender /\ m.receiverId = receiver /\ ~m.read

\* The condition of the forEach in markMessagesAsRead.
ReadMatch(m, sender, receiver) ==
    m.senderId = sender /\ m.receiverId = receiver /\ ~m.read /\ ~m.isUnsent

hasChanges(msgs, sender, receiver) ==
    \E i \in DOMAIN msgs : ReadMatch(msgs[i], sender, receiver)

\* markMessagesAsRead that stops at the first message it marks.
markFirstAsRead(msgs, sender, receiver) ==
    [i \in DOMAIN msgs |->
        IF /\ ReadMatch(msgs[i], sender, receiver)
           /\ \A j \in 1 .. i - 1 : ~ReadMatch(msgs[j], sender, receiver)
        THEN [msgs[i] EXCEPT !.read = TRUE] ELSE msgs[i]]

\* this.messages.forEach(...) of markMessagesAsRead.
markMessagesAsRead(msgs, sender, receiver) ==
    [i \in DOMAIN msgs |->
        IF ReadMatch(msgs[i], sender, receiver)
        THEN [msgs[i] EXCEPT !.read = TRUE] ELSE msgs[i]]

\* BetweenMatch without its test of isUnsent.
BetweenMatchShowsUnsent(m, u1, u2) ==
    \/ (m.senderId = u1 /\ m.receiverId = u2)
    \/ (m.senderId = u2 /\ m.receiverId = u1)

\* The filter of getMessagesBetweenUsers.
BetweenMatch(m, u1, u2) ==
    /\ \/ (m.senderId = u1 /\ m.receiverId = u2)
       \/ (m.senderId = u2 /\ m.receiverId = u1)
    /\ ~m.isUnsent

\* Array.prototype.sort with the comparator a.timestamp - b.timestamp: a
\* stable sort, here by insertion from the left.
RECURSIVE InsertSorted(_, _)
InsertSorted(sorted, m) ==
    IF sorted = <<>> THEN <<m>>
    ELSE IF sorted[Len(sorted)].timestamp <= m.timestamp THEN Append(sorted, m)
    ELSE Append(InsertSorted(SubSeq(sorted, 1, Len(sorted) - 1), m),
                sorted[Len(sorted)])

RECURSIVE SortByTimestamp(_)
SortByTimestamp(s) ==
    IF s = <<>> THEN <<>>
    ELSE InsertSorted(SortByTimestamp(SubSeq(s, 1, Len(s) - 1)), s[Len(s)])

\* getMessagesBetweenUsers without its sort.
getMessagesUnsorted(msgs, u1, u2) ==
    SelectSeq(msgs, LAMBDA m : BetweenMatch(m, u1, u2))

\* this.messages.filter(...).sort(...)
getMessagesBetweenUsers(msgs, u1, u2) ==
    SortByTimestamp(SelectSeq(msgs, LAMBDA m : BetweenMatch(m, u1, u2)))

\* UnreadMatch without its test of isUnsent.
UnreadMatchCountsUnsent(m, uid) == m.receiverId = uid /\ ~m.read

\* The condition of the forEach in getUnreadCountsForUser.
UnreadMatch(m, uid) == m.receiverId = uid /\ ~m.read /\ ~m.isUnsent

\* getUnreadCountsForUser: the Map built by the forEach, one pass over the
\* ledger; a sender is a key only once it has a counted message.
RECURSIVE UnreadFold(_, _, _, _)
UnreadFold(msgs, uid, i, acc) ==
    IF i > Len(msgs) THEN acc
    ELSE IF UnreadMatch(msgs[i], uid)
         THEN LET s == msgs[i].senderId
              IN  UnreadFold(msgs, uid, i + 1,
                     IF s \in DOMAIN acc THEN [acc EXCEPT ![s] = @ + 1]
                     ELSE acc @@ (s :> 1))
         ELSE UnreadFold(msgs, uid, i + 1, acc)

getUnreadCountsForUser(msgs, uid) == UnreadFold(msgs, uid, 1, <<>>)

\* Array.from(unreadCounts.values()).reduce((sum, count) => sum + count, 0)
RECURSIVE SumValues(_, _)
SumValues(f, keys) ==
    IF keys = {} THEN 0
    ELSE LET k == CHOOSE x \in keys : TRUE
         IN  f[k] + SumValues(f, keys \ {k})

totalUnread(counts) == SumValues(counts, DOMAIN counts)

\* ------------------------------------------------- routes.ts: the pushes
\* One ws.send call: the connection written to and the JSON sent.
Push(c, type, body) == [to |-> c, type |-> type, body |-> body]

\* client && client.readyState === WebSocket.OPEN
IsOpen(rs, c) == c # NoConn /\ rs[c] = "open"

\* The order in which the pushes of one broadcast are listed.
KeyOrder == <<"A", "B", Nobody>>

\* broadcastUserStatus whose loop ends at the first entry it cannot send to.
broadcastStopsAtFailure(cl, rs, uid, online) ==
    LET held(i) == cl[KeyOrder[i]] # NoConn
        hit(i) == IsOpen(rs, cl[KeyOrder[i]])
        ev(i) == Push(cl[KeyOrder[i]], "userStatus", [userId |-> uid, online |-> online])
        RECURSIVE from(_)
        from(i) == IF i > Len(KeyOrder) THEN <<>>
                   ELSE IF hit(i) THEN <<ev(i)>> \o from(i + 1)
                   ELSE IF held(i) THEN <<>> ELSE from(i + 1)
    IN  from(1)

\* broadcastUserStatus: one userStatus push to every OPEN connection of the
\* clients Map, once per entry.
broadcastUserStatus(cl, rs, uid, online) ==
    LET hit(i) == IsOpen(rs, cl[KeyOrder[i]])
        ev(i) == Push(cl[KeyOrder[i]], "userStatus", [userId |-> uid, online |-> online])
        RECURSIVE from(_)
        from(i) == IF i > Len(KeyOrder) THEN <<>>
                   ELSE IF hit(i) THEN <<ev(i)>> \o from(i + 1) ELSE from(i + 1)
    IN  from(1)

\* sendUnreadCountsToUser: nothing unless the user's registered connection
\* is OPEN; otherwise the counts of the ledger and their sum, to it.
sendUnreadCountsToUser(cl, rs, msgs, uid) ==
    IF ~IsOpen(rs, cl[uid]) THEN <<>>
    ELSE LET counts == getUnreadCountsForUser(msgs, uid)
         IN  <<Push(cl[uid], "unreadCounts",
                    [counts |-> counts, total |-> totalUnread(counts)])>>

\* if (ws.readyState === WebSocket.OPEN) ws.send(data)
SendIfOpen(rs, c, type, body) ==
    IF IsOpen(rs, c) THEN <<Push(c, type, body)>> ELSE <<>>

\* What the clients were last told: for every connection the body of the
\* last "unreadCounts" sent to it, for every user the online flag of the
\* last "userStatus" sent about it to any connection.
NotTold == [counts |-> <<>>, total |-> 0 - 1]
NothingTold ==
    [counts |-> [c \in Conns |-> NotTold], online |-> [u \in Keys |-> "none"]]

\* The value of told in the specifications that leave it out of the state.
Unwatched ==
    [counts |-> [c \in Conns |-> NotTold], online |-> [u \in Keys |-> "unwatched"]]

\* told after the pushes of a step, in the order of the ws.send calls.
RECURSIVE Told(_, _)
Told(was, pushes) ==
    IF was = Unwatched \/ pushes = <<>> THEN was
    ELSE LET e == Head(pushes)
             now == IF e.type = "unreadCounts"
                    THEN [was EXCEPT !.counts[e.to] = e.body]
                    ELSE IF e.type = "userStatus"
                    THEN [was EXCEPT !.online[e.body.userId] =
                             IF e.body.online THEN "online" ELSE "offline"]
                    ELSE was
         IN  Told(now, Tail(pushes))

\* ------------------------------------------------------------ the tasks
\* A suspended handler: its kind, its connection (NoConn for an HTTP
\* request), the await it is at, the fields of its command that its
\* continuation reads, and, for a save of the ledger whose JSON text has
\* been produced, that text.
\*   pc = "init", "messages", "files": in init(), awaiting the read of
\*                  users.json, of messages.json, of files.json
\*   pc = "access": in writeJSONFile, awaiting ensureDataDir
\*   pc = "write" : in writeJSONFile, awaiting fs.writeFile of snap
\*   pc = "status": in a storage call that ends in saveUsers, awaiting
\*                  ensureDataDir; snap is the array saveUsers made
\*   pc = "usersOpen", "usersWrite", "usersClose": in fs.writeFile of
\*                  users.json, snap the JSON text
Task(kind, c, pc, who, other, mid) ==
    [kind |-> kind, ws |-> c, pc |-> pc, who |-> who, other |-> other,
     mid |-> mid, snap |-> <<>>]

\* tasks is a set: two suspended handlers are told apart by their fields.
CanSuspend(t) == t \notin tasks

\* A handler at its await of a storage call that ends in saveUsers: the
\* array of saveUsers is made at the call.
StatusTask(kind, c, who, us) ==
    [Task(kind, c, "status", who, Nobody, 0) EXCEPT !.snap = usersArray(us)]

\* users.json as a file, as messages.json is below: text is the records
\* last written from offset 0, long the records whose text gives the file
\* its length.
UsersFile(text) == [text |-> text, long |-> text, state |-> "whole"]
UsersTruncated == [text |-> NoUsers, long |-> NoUsers, state |-> "empty"]

\* The value of usersFile in the specifications that leave the contents of
\* users.json out of the state.
UsersUntracked == [text |-> NoUsers, long |-> NoUsers, state |-> "untracked"]

\* JSON.stringify(a) has more characters than JSON.stringify(b), for two
\* arrays of records whose names are as long: more records, or as many
\* and more of them "offline" (one character more than "online").
Offlines(text) == Cardinality({ u \in Ids : text[u].status = "offline" })
Records(text) == Cardinality({ u \in Ids : text[u] # NoUser })
UsersLonger(a, b) ==
    \/ Records(a) > Records(b)
    \/ Records(a) = Records(b) /\ Offlines(a) > Offlines(b)

\* The file after a descriptor opened by writeFile wrote text from offset 0
\* over file f.
UsersOverlay(text, f) ==
    IF UsersLonger(f.long, text)
    THEN [text |-> text, long |-> f.long, state |-> "torn"]
    ELSE UsersFile(text)

\* readJSONFile(USERS_FILE, []) and the forEach of init(): the records in
\* the file, none when the file's text is no JSON.
readUsersFile(f) == IF f.state = "whole" THEN f.text ELSE NoUsers

\* writeJSONFile of saveUsers after ensureDataDir: the array is
\* stringified, fs.writeFile asks for the file to be opened.
UsersSnapshot(t) ==
    /\ t \in tasks /\ t.pc = "status"
    /\ usersFile # UsersUntracked
    /\ LET w == [t EXCEPT !.pc = "usersOpen", !.snap = stringifyUsers(t.snap, users)]
       IN  /\ w \notin tasks
           /\ tasks' = (tasks \ {t}) \cup {w}
    /\ sent' = <<>>
    /\ UNCHANGED <<readyState, userId, clients, messages, disk, users, usersFile>>
    /\ told' = Told(told, sent')
    /\ UNCHANGED initialized

\* fs.writeFile: the open with flag "w" is done, the write is asked for.
UsersOpen(t) ==
    /\ t \in tasks /\ t.pc = "usersOpen"
    /\ LET w == [t EXCEPT !.pc = "usersWrite"]
       IN  /\ w \notin tasks
           /\ tasks' = (tasks \ {t}) \cup {w}
    /\ usersFile' = UsersTruncated
    /\ sent' = <<>>
    /\ UNCHANGED <<readyState, userId, clients, messages, disk, users>>
    /\ told' = Told(told, sent')
    /\ UNCHANGED initialized

\* fs.writeFile: the text is written, the close is asked for.
UsersWrite(t) ==
    /\ t \in tasks /\ t.pc = "usersWrite"
    /\ LET w == [t EXCEPT !.pc = "usersClose"]
       IN  /\ w \notin tasks
           /\ tasks' = (tasks \ {t}) \cup {w}
    /\ usersFile' = UsersOverlay(t.snap, usersFile)
    /\ sent' = <<>>
    /\ UNCHANGED <<readyState, userId, clients, messages, disk, users>>
    /\ told' = Told(told, sent')
    /\ UNCHANGED initialized

\* The saveUsers of task t resolves: the descriptor is closed. Where the
\* file is left out of the state the awaits of a save are one suspension.
StatusResolves(t) ==
    t.pc = IF usersFile = UsersUntracked THEN "status" ELSE "usersClose"

\* POST /api/auth/register from createUser on: the record is set in the
\* Map with a new id and saveUsers is awaited.
CreateUser(uid) ==
    /\ initialized
    /\ users # Unlisted /\ users[uid] = NoUser
    /\ users' = createUser(users, uid)
    /\ LET t == StatusTask("register", NoConn, uid, users')
       IN  /\ CanSuspend(t)
           /\ tasks' = tasks \cup {t}
    /\ sent' = <<>>
    /\ UNCHANGED <<readyState, userId, clients, messages, disk, usersFile>>
    /\ told' = Told(told, sent')
    /\ UNCHANGED initialized

\* The register route answers with the user; no connection is told.
RegisterDone(t) ==
    /\ t \in tasks /\ t.kind = "register"
    /\ StatusResolves(t)
    /\ tasks' = tasks \ {t}
    /\ sent' = <<>>
    /\ UNCHANGED <<readyState, userId, clients, messages, disk, users, usersFile>>
    /\ told' = Told(told, sent')
    /\ UNCHANGED initialized

\* POST /api/auth/login with the password of user uid, from
\* updateUserStatus(user.id, "online") on.
Login(uid) ==
    /\ initialized
    /\ users # Unlisted /\ users[uid] # NoUser
    /\ users' = updateUserStatus(users, uid, "online")
    /\ LET t == StatusTask("login", NoConn, uid, users')
       IN  /\ CanSuspend(t)
           /\ tasks' = tasks \cup {t}
    /\ sent' = <<>>
    /\ UNCHANGED <<readyState, userId, clients, messages, disk, usersFile>>
    /\ told' = Told(told, sent')
    /\ UNCHANGED initialized

\* The login route answers with the user; no connection is told.
LoginDone(t) ==
    /\ t \in tasks /\ t.kind = "login"
    /\ StatusResolves(t)
    /\ tasks' = tasks \ {t}
    /\ sent' = <<>>
    /\ UNCHANGED <<readyState, userId, clients, messages, disk, users, usersFile>>
    /\ told' = Told(told, sent')
    /\ UNCHANGED initialized

\* The message object a handler holds a reference to, as it is now.
MessageById(msgs, mid) ==
    LET hits == { i \in DOMAIN msgs : msgs[i].id = mid }
    IN  msgs[CHOOSE i \in hits : TRUE]

\* wss.on("connection"): a new connection object, OPEN, without userId.
Connect(c) ==
    /\ readyState[c] = "new"
    /\ readyState' = [readyState EXCEPT ![c] = "open"]
    /\ sent' = <<>>
    /\ UNCHANGED <<userId, clients, messages, disk, tasks>>
    /\ UNCHANGED <<users, usersFile>>
    /\ told' = Told(told, sent')
    /\ UNCHANGED initialized

\* The transport goes down: readyState leaves OPEN before "close" is emitted.
BeginClose(c) ==
    /\ readyState[c] = "open"
    /\ readyState' = [readyState EXCEPT ![c] = "closing"]
    /\ sent' = <<>>
    /\ UNCHANGED <<userId, clients, messages, disk, tasks>>
    /\ UNCHANGED <<users, usersFile>>
    /\ told' = Told(told, sent')
    /\ UNCHANGED initialized

\* ws.on("message") with data that JSON.parse rejects: the throw is caught
\* and logged, nothing else runs.
Unparseable(c) ==
    /\ readyState[c] = "open"
    /\ sent' = <<>>
    /\ UNCHANGED <<readyState, userId, clients, messages, disk, tasks>>
    /\ UNCHANGED <<users, usersFile>>
    /\ told' = Told(told, sent')
    /\ UNCHANGED initialized

\* Auth that keeps the entry of an identity that is registered already.
AuthKeepsFirst(c, uid) ==
    /\ initialized
    /\ readyState[c] = "open"
    /\ userId' = [userId EXCEPT ![c] = uid]
    /\ clients' = IF clients[uid] = NoConn
                  THEN [clients EXCEPT ![uid] = c]
                  ELSE clients
    /\ users' = updateUserStatus(users, uid, "online")
    /\ IF HasUser(users, uid)
       THEN LET t == StatusTask("auth", c, uid, users')
            IN  /\ CanSuspend(t)
                /\ tasks' = tasks \cup {t}
                /\ sent' = <<>>
       ELSE /\ sent' = broadcastUserStatus(clients', readyState, uid, TRUE)
                       \o sendUnreadCountsToUser(clients', readyState, messages, uid)
            /\ UNCHANGED tasks
    /\ UNCHANGED <<readyState, messages, disk, usersFile>>
    /\ told' = Told(told, sent')
    /\ UNCHANGED initialized

\* ws.on("message"), type "auth", up to the await of updateUserStatus; the
\* whole handler when the claimed userId is no user (no save to await).
\* Before the storage is initialized updateUserStatus awaits init() first.
Auth(c, uid) ==
    /\ readyState[c] = "open"
    /\ userId' = [userId EXCEPT ![c] = uid]
    /\ clients' = [clients EXCEPT ![uid] = c]
    /\ IF ~initialized
       THEN LET t == Task("auth", c, "init", uid, Nobody, 0)
            IN  /\ CanSuspend(t)
                /\ tasks' = tasks \cup {t}
                /\ sent' = <<>>
                /\ UNCHANGED users
       ELSE /\ users' = updateUserStatus(users, uid, "online")
            /\ IF HasUser(users, uid)
               THEN LET t == StatusTask("auth", c, uid, users')
                    IN  /\ CanSuspend(t)
                        /\ tasks' = tasks \cup {t}
                        /\ sent' = <<>>
               ELSE /\ sent' = broadcastUserStatus(clients', readyState, uid, TRUE)
                               \o sendUnreadCountsToUser(clients', readyState, messages, uid)
                    /\ UNCHANGED tasks
    /\ UNCHANGED <<readyState, messages, disk, usersFile, initialized>>
    /\ told' = Told(told, sent')

\* AuthDone that also sends the user the messages waiting unread.
AuthDoneReplays(t) ==
    /\ t \in tasks /\ t.kind = "auth"
    /\ StatusResolves(t)
    /\ tasks' = tasks \ {t}
    /\ sent' = broadcastUserStatus(clients, readyState, t.who, TRUE)
               \o sendUnreadCountsToUser(clients, readyState, messages, t.who)
               \o (IF \E i \in DOMAIN messages : UnreadMatch(messages[i], t.who)
                   THEN SendIfOpen(readyState, clients[t.who], "message",
                           messages[CHOOSE i \in DOMAIN messages :
                                       UnreadMatch(messages[i], t.who)])
                   ELSE <<>>)
    /\ UNCHANGED <<readyState, userId, clients, messages, disk>>
    /\ UNCHANGED <<users, usersFile>>
    /\ told' = Told(told, sent')
    /\ UNCHANGED initialized

\* The rest of the auth handler, once updateUserStatus has resolved.
AuthDone(t) ==
    /\ t \in tasks /\ t.kind = "auth"
    /\ StatusResolves(t)
    /\ tasks' = tasks \ {t}
    /\ sent' = broadcastUserStatus(clients, readyState, t.who, TRUE)
               \o sendUnreadCountsToUser(clients, readyState, messages, t.who)
    /\ UNCHANGED <<readyState, userId, clients, messages, disk>>
    /\ UNCHANGED <<users, usersFile>>
    /\ told' = Told(told, sent')
    /\ UNCHANGED initialized

\* Close without clients.delete(ws.userId).
CloseKeepsEntry(c) ==
    /\ initialized
    /\ readyState[c] \in {"open", "closing"}
    /\ readyState' = [readyState EXCEPT ![c] = "closed"]
    /\ users' = updateUserStatus(users, userId[c], "offline")
    /\ IF HasUser(users, userId[c])
       THEN LET t == StatusTask("close", c, userId[c], users')
            IN  /\ CanSuspend(t)
                /\ tasks' = tasks \cup {t}
                /\ sent' = <<>>
                /\ UNCHANGED clients
       ELSE IF userId[c] # Nobody
       THEN /\ sent' = broadcastUserStatus(clients, readyState', userId[c], FALSE)
            /\ UNCHANGED <<clients, tasks>>
       ELSE /\ sent' = <<>>
            /\ UNCHANGED <<clients, tasks>>
    /\ UNCHANGED <<userId, messages, disk, usersFile>>
    /\ told' = Told(told, sent')
    /\ UNCHANGED initialized

\* ws.on("close") up to the await of updateUserStatus. The event follows the
\* transport's end at once or after a while in CLOSING (BeginClose).
Close(c) ==
    /\ initialized
    /\ readyState[c] \in {"open", "closing"}
    /\ readyState' = [readyState EXCEPT ![c] = "closed"]
    /\ users' = updateUserStatus(users, userId[c], "offline")
    /\ IF HasUser(users, userId[c])
       THEN LET t == StatusTask("close", c, userId[c], users')
            IN  /\ CanSuspend(t)
                /\ clients' = [clients EXCEPT ![userId[c]] = NoConn]
                /\ tasks' = tasks \cup {t}
                /\ sent' = <<>>
       ELSE IF userId[c] # Nobody
       THEN /\ clients' = [clients EXCEPT ![userId[c]] = NoConn]
            /\ sent' = broadcastUserStatus(clients', readyState', userId[c], FALSE)
            /\ UNCHANGED tasks
       ELSE /\ sent' = <<>>
            /\ UNCHANGED <<clients, tasks>>
    /\ UNCHANGED <<userId, messages, disk, usersFile>>
    /\ told' = Told(told, sent')
    /\ UNCHANGED initialized

\* The rest of the close handler: broadcastUserStatus(ws.userId, false).
CloseDone(t) ==
    /\ t \in tasks /\ t.kind = "close"
    /\ StatusResolves(t)
    /\ tasks' = tasks \ {t}
    /\ sent' = broadcastUserStatus(clients, readyState, userId[t.ws], FALSE)
    /\ UNCHANGED <<readyState, userId, clients, messages, disk>>
    /\ UNCHANGED <<users, usersFile>>
    /\ told' = Told(told, sent')
    /\ UNCHANGED initialized

\* ----------------------------------------------- saves of the ledger
\* messages.json as a file: text is the ledger last written from offset 0,
\* long the ledger whose text gives the file its length, state tells
\* whether the file is that text and no more ("whole"), has no byte
\* ("empty") or has bytes of a longer text after it ("torn").
File(text) == [text |-> text, long |-> text, state |-> "whole"]

\* fs.writeFile opens with flag "w": the file is cut to no byte.
Truncated == [text |-> <<>>, long |-> <<>>, state |-> "empty"]

\* The value of disk in the specifications that leave the contents of
\* messages.json out of the state.
Untracked == [text |-> <<>>, long |-> <<>>, state |-> "untracked"]

\* The flags that are true in a ledger: JSON.stringify writes true with
\* one character less than false.
Trues(text) ==
    Cardinality({ i \in DOMAIN text : text[i].read })
    + Cardinality({ i \in DOMAIN text : text[i].isUnsent })

\* JSON.stringify(a) has more characters than JSON.stringify(b), for two
\* values the ledger had: more records, or as many and fewer true flags.
Longer(a, b) ==
    Len(a) > Len(b) \/ (Len(a) = Len(b) /\ Trues(a) < Trues(b))

\* The file after a descriptor opened by writeFile wrote text from offset 0
\* over file f: what f had beyond the text's length stays.
Overlay(text, f) ==
    IF Longer(f.long, text)
    THEN [text |-> text, long |-> f.long, state |-> "torn"]
    ELSE File(text)

\* writeJSONFile after ensureDataDir: JSON.stringify(this.messages) is
\* evaluated now, so the text holds the ledger as it is at this moment,
\* and fs.writeFile asks for the file to be opened.
SaveSnapshot(t) ==
    /\ t \in tasks /\ t.pc = "access"
    /\ disk # Untracked
    /\ LET w == [t EXCEPT !.pc = "open", !.snap = messages]
       IN  /\ w \notin tasks
           /\ tasks' = (tasks \ {t}) \cup {w}
    /\ sent' = <<>>
    /\ UNCHANGED <<readyState, userId, clients, messages, disk>>
    /\ UNCHANGED <<users, usersFile>>
    /\ told' = Told(told, sent')
    /\ UNCHANGED initialized

\* fs.writeFile: the open with flag "w" is done, the write is asked for.
SaveOpen(t) ==
    /\ t \in tasks /\ t.pc = "open"
    /\ LET w == [t EXCEPT !.pc = "write"]
       IN  /\ w \notin tasks
           /\ tasks' = (tasks \ {t}) \cup {w}
    /\ disk' = Truncated
    /\ sent' = <<>>
    /\ UNCHANGED <<readyState, userId, clients, messages>>
    /\ UNCHANGED <<users, usersFile>>
    /\ told' = Told(told, sent')
    /\ UNCHANGED initialized

\* fs.writeFile: the text is written, the close is asked for.
SaveWrite(t) ==
    /\ t \in tasks /\ t.pc = "write"
    /\ LET w == [t EXCEPT !.pc = "close"]
       IN  /\ w \notin tasks
           /\ tasks' = (tasks \ {t}) \cup {w}
    /\ disk' = Overlay(t.snap, disk)
    /\ sent' = <<>>
    /\ UNCHANGED <<readyState, userId, clients, messages>>
    /\ UNCHANGED <<users, usersFile>>
    /\ told' = Told(told, sent')
    /\ UNCHANGED initialized

\* The save of task t resolves: the descriptor is closed. Where the file
\* is left out of the state the awaits of a save are one suspension.
Resolves(t) ==
    /\ t.pc = IF disk = Untracked THEN "access" ELSE "close"
    /\ UNCHANGED disk

\* The awaited I/O rejects: the storage call throws, the handler's catch
\* logs the error and the rest of the handler never runs.
SaveFail(t) ==
    /\ t \in tasks
    /\ tasks' = tasks \ {t}
    /\ sent' = <<>>
    /\ UNCHANGED <<readyState, userId, clients, messages, disk>>
    /\ UNCHANGED <<users, usersFile>>
    /\ told' = Told(told, sent')
    /\ UNCHANGED initialized

\* --------------------------------------------------------- sendMessage
\* SendPushes without the echo to the sending connection.
SendPushesNoEcho(cl, rs, uids, msgs, t) ==
    LET m == MessageById(msgs, t.mid)
        recipientWs == cl[t.other]
    IN  SendIfOpen(rs, recipientWs, "message", m)
        \o (IF IsOpen(rs, recipientWs)
            THEN sendUnreadCountsToUser(cl, rs, msgs, t.other) ELSE <<>>)
        \o sendUnreadCountsToUser(cl, rs, msgs, uids[t.ws])

\* The pushes of the sendMessage handler after createMessage has resolved.
SendPushes(cl, rs, uids, msgs, t) ==
    LET m == MessageById(msgs, t.mid)
        recipientWs == cl[t.other]
    IN  SendIfOpen(rs, t.ws, "message", m)
        \o SendIfOpen(rs, recipientWs, "message", m)
        \o (IF IsOpen(rs, recipientWs)
            THEN sendUnreadCountsToUser(cl, rs, msgs, t.other) ELSE <<>>)
        \o sendUnreadCountsToUser(cl, rs, msgs, uids[t.ws])

\* SendMessage without the check of ws.userId.
SendMessageUnchecked(c, receiver, payload, tick) ==
    /\ initialized
    /\ readyState[c] = "open"
    /\ LET t == Task("send", c, "access", userId[c], receiver, Len(messages) + 1)
       IN  /\ CanSuspend(t)
           /\ messages' = createMessage(messages, userId[c], receiver, payload,
                                        Now(messages, tick))
           /\ tasks' = tasks \cup {t}
           /\ sent' = <<>>
    /\ UNCHANGED <<readyState, userId, clients, disk>>
    /\ UNCHANGED <<users, usersFile>>
    /\ told' = Told(told, sent')
    /\ UNCHANGED initialized

\* ws.on("message"), type "sendMessage", up to the save in createMessage.
\* Before the storage is initialized createMessage awaits init() first; the
\* task holds the InsertMessage meanwhile.
SendMessage(c, receiver, payload, tick) ==
    /\ readyState[c] = "open"
    /\ IF userId[c] = Nobody
       THEN /\ sent' = <<>>
            /\ UNCHANGED <<messages, tasks>>
       ELSE IF ~initialized
       THEN LET t == [Task("send", c, "init", userId[c], receiver, 0)
                        EXCEPT !.snap = <<payload>>]
            IN  /\ CanSuspend(t)
                /\ tasks' = tasks \cup {t}
                /\ sent' = <<>>
                /\ UNCHANGED messages
       ELSE LET t == Task("send", c, "access", userId[c], receiver, Len(messages) + 1)
            IN  /\ CanSuspend(t)
                /\ messages' = createMessage(messages, userId[c], receiver, payload,
                                             Now(messages, tick))
                /\ tasks' = tasks \cup {t}
                /\ sent' = <<>>
    /\ UNCHANGED <<readyState, userId, clients, disk>>
    /\ UNCHANGED <<users, usersFile, initialized>>
    /\ told' = Told(told, sent')

\* fs.writeFile of the sendMessage's save resolves; the handler goes on.
SendDone(t) ==
    /\ t \in tasks /\ t.kind = "send"
    /\ Resolves(t)
    /\ tasks' = tasks \ {t}
    /\ sent' = SendPushes(clients, readyState, userId, messages, t)
    /\ UNCHANGED <<readyState, userId, clients, messages>>
    /\ UNCHANGED <<users, usersFile>>
    /\ told' = Told(told, sent')
    /\ UNCHANGED initialized

\* --------------------------------------------------------- getMessages
\* GetMessages that sends the conversation to the other user as well.
GetMessagesToBoth(c, other) ==
    /\ initialized
    /\ readyState[c] = "open"
    /\ sent' = IF userId[c] = Nobody THEN <<>>
               ELSE LET found == getMessagesBetweenUsers(messages, userId[c], other)
                    IN  SendIfOpen(readyState, c, "messages", found)
                        \o SendIfOpen(readyState, clients[other], "messages", found)
    /\ UNCHANGED <<readyState, userId, clients, messages, disk, tasks>>
    /\ UNCHANGED <<users, usersFile>>
    /\ told' = Told(told, sent')
    /\ UNCHANGED initialized

\* ws.on("message"), type "getMessages": the whole handler.
GetMessages(c, other) ==
    /\ initialized
    /\ readyState[c] = "open"
    /\ sent' = IF userId[c] = Nobody THEN <<>>
               ELSE SendIfOpen(readyState, c, "messages",
                               getMessagesBetweenUsers(messages, userId[c], other))
    /\ UNCHANGED <<readyState, userId, clients, messages, disk, tasks>>
    /\ UNCHANGED <<users, usersFile>>
    /\ told' = Told(told, sent')
    /\ UNCHANGED initialized

\* ---------------------------------------------------- markMessagesRead
\* MarkReadPushes without the refresh of the sender's counts.
MarkReadPushesReaderOnly(cl, rs, uids, msgs, c, sender) ==
    SendIfOpen(rs, cl[sender], "messagesRead", [readerId |-> uids[c]])
    \o sendUnreadCountsToUser(cl, rs, msgs, uids[c])

\* The pushes of the markMessagesRead handler after markMessagesAsRead.
MarkReadPushes(cl, rs, uids, msgs, c, sender) ==
    SendIfOpen(rs, cl[sender], "messagesRead", [readerId |-> uids[c]])
    \o sendUnreadCountsToUser(cl, rs, msgs, uids[c])
    \o sendUnreadCountsToUser(cl, rs, msgs, sender)

\* ws.on("message"), type "markMessagesRead": to the save when a message
\* changed, the whole handler when none did.
MarkMessagesRead(c, sender) ==
    /\ initialized
    /\ readyState[c] = "open"
    /\ IF userId[c] = Nobody
       THEN /\ sent' = <<>>
            /\ UNCHANGED <<messages, tasks>>
       ELSE IF hasChanges(messages, sender, userId[c])
       THEN LET t == Task("markRead", c, "access", userId[c], sender, 0)
            IN  /\ CanSuspend(t)
                /\ messages' = markMessagesAsRead(messages, sender, userId[c])
                /\ tasks' = tasks \cup {t}
                /\ sent' = <<>>
       ELSE /\ sent' = MarkReadPushes(clients, readyState, userId, messages, c, sender)
            /\ UNCHANGED <<messages, tasks>>
    /\ UNCHANGED <<readyState, userId, clients, disk>>
    /\ UNCHANGED <<users, usersFile>>
    /\ told' = Told(told, sent')
    /\ UNCHANGED initialized

MarkReadDone(t) ==
    /\ t \in tasks /\ t.kind = "markRead"
    /\ Resolves(t)
    /\ tasks' = tasks \ {t}
    /\ sent' = MarkReadPushes(clients, readyState, userId, messages, t.ws, t.other)
    /\ UNCHANGED <<readyState, userId, clients, messages>>
    /\ UNCHANGED <<users, usersFile>>
    /\ told' = Told(told, sent')
    /\ UNCHANGED initialized

\* ----------------------------------------------------- getUnreadCounts
GetUnreadCounts(c) ==
    /\ initialized
    /\ readyState[c] = "open"
    /\ sent' = IF userId[c] = Nobody THEN <<>>
               ELSE sendUnreadCountsToUser(clients, readyState, messages, userId[c])
    /\ UNCHANGED <<readyState, userId, clients, messages, disk, tasks>>
    /\ UNCHANGED <<users, usersFile>>
    /\ told' = Told(told, sent')
    /\ UNCHANGED initialized

\* ------------------------------------------------------- unsendMessage
\* The pushes of the unsendMessage handler when unsendMessage returned true.
UnsendPushes(cl, rs, uids, t) ==
    LET unsendData == [messageId |-> t.mid, senderId |-> uids[t.ws],
                       receiverId |-> t.other]
    IN  SendIfOpen(rs, t.ws, "messageUnsent", unsendData)
        \o SendIfOpen(rs, cl[t.other], "messageUnsent", unsendData)

\* UnsendMessage that tells the requester when the message is another's.
UnsendMessageTellsWhy(c, mid, receiver) ==
    /\ initialized
    /\ readyState[c] = "open"
    /\ IF userId[c] = Nobody
       THEN /\ sent' = <<>>
            /\ UNCHANGED <<messages, tasks>>
       ELSE IF FindUnsend(messages, mid, userId[c]) = 0
       THEN /\ sent' = IF \E i \in DOMAIN messages : messages[i].id = mid
                       THEN SendIfOpen(readyState, c, "error", [messageId |-> mid])
                       ELSE <<>>
            /\ UNCHANGED <<messages, tasks>>
       ELSE LET t == Task("unsend", c, "access", userId[c], receiver, mid)
            IN  /\ CanSuspend(t)
                /\ messages' = unsendMessage(messages, mid, userId[c])
                /\ tasks' = tasks \cup {t}
                /\ sent' = <<>>
    /\ UNCHANGED <<readyState, userId, clients, disk>>
    /\ UNCHANGED <<users, usersFile>>
    /\ told' = Told(told, sent')
    /\ UNCHANGED initialized

\* ws.on("message"), type "unsendMessage": to the save when the message is
\* found, the whole handler (success false, nothing sent) when it is not.
UnsendMessage(c, mid, receiver) ==
    /\ initialized
    /\ readyState[c] = "open"
    /\ IF userId[c] = Nobody \/ FindUnsend(messages, mid, userId[c]) = 0
       THEN /\ sent' = <<>>
            /\ UNCHANGED <<messages, tasks>>
       ELSE LET t == Task("unsend", c, "access", userId[c], receiver, mid)
            IN  /\ CanSuspend(t)
                /\ messages' = unsendMessage(messages, mid, userId[c])
                /\ tasks' = tasks \cup {t}
                /\ sent' = <<>>
    /\ UNCHANGED <<readyState, userId, clients, disk>>
    /\ UNCHANGED <<users, usersFile>>
    /\ told' = Told(told, sent')
    /\ UNCHANGED initialized

UnsendDone(t) ==
    /\ t \in tasks /\ t.kind = "unsend"
    /\ Resolves(t)
    /\ tasks' = tasks \ {t}
    /\ sent' = UnsendPushes(clients, readyState, userId, t)
    /\ UNCHANGED <<readyState, userId, clients, messages>>
    /\ UNCHANGED <<users, usersFile>>
    /\ told' = Told(told, sent')
    /\ UNCHANGED initialized

\* ------------------------------------------- POST /api/messages/unsend
\* The pushes of the route: the message is looked up in the ledger and
\* its own senderId and receiverId name the connections notified.
HttpUnsendPushes(cl, rs, msgs, t) ==
    LET message == MessageById(msgs, t.mid)
        unsendData == [messageId |-> t.mid, senderId |-> message.senderId,
                       receiverId |-> message.receiverId]
    IN  SendIfOpen(rs, cl[message.senderId], "messageUnsent", unsendData)
        \o SendIfOpen(rs, cl[message.receiverId], "messageUnsent", unsendData)

HttpUnsend(mid, uid) ==
    /\ initialized
    /\ IF FindUnsend(messages, mid, uid) = 0
       THEN UNCHANGED <<messages, tasks>>
       ELSE LET t == Task("httpUnsend", NoConn, "access", uid, Nobody, mid)
            IN  /\ CanSuspend(t)
                /\ messages' = unsendMessage(messages, mid, uid)
                /\ tasks' = tasks \cup {t}
    /\ sent' = <<>>
    /\ UNCHANGED <<readyState, userId, clients, disk>>
    /\ UNCHANGED <<users, usersFile>>
    /\ told' = Told(told, sent')
    /\ UNCHANGED initialized

HttpUnsendDone(t) ==
    /\ t \in tasks /\ t.kind = "httpUnsend"
    /\ Resolves(t)
    /\ tasks' = tasks \ {t}
    /\ sent' = HttpUnsendPushes(clients, readyState, messages, t)
    /\ UNCHANGED <<readyState, userId, clients, messages>>
    /\ UNCHANGED <<users, usersFile>>
    /\ told' = Told(told, sent')
    /\ UNCHANGED initialized

\* ---------------------------------------- POST /api/messages/mark-read
HttpMarkReadPushes(cl, rs, sender, receiver) ==
    SendIfOpen(rs, cl[sender], "messagesRead", [receiverId |-> receiver])

HttpMarkRead(sender, receiver) ==
    /\ initialized
    /\ IF hasChanges(messages, sender, receiver)
       THEN LET t == Task("httpMarkRead", NoConn, "access", receiver, sender, 0)
            IN  /\ CanSuspend(t)
                /\ messages' = markMessagesAsRead(messages, sender, receiver)
                /\ tasks' = tasks \cup {t}
                /\ sent' = <<>>
       ELSE /\ sent' = HttpMarkReadPushes(clients, readyState, sender, receiver)
            /\ UNCHANGED <<messages, tasks>>
    /\ UNCHANGED <<readyState, userId, clients, disk>>
    /\ UNCHANGED <<users, usersFile>>
    /\ told' = Told(told, sent')
    /\ UNCHANGED initialized

HttpMarkReadDone(t) ==
    /\ t \in tasks /\ t.kind = "httpMarkRead"
    /\ Resolves(t)
    /\ tasks' = tasks \ {t}
    /\ sent' = HttpMarkReadPushes(clients, readyState, t.other, t.who)
    /\ UNCHANGED <<readyState, userId, clients, messages>>
    /\ UNCHANGED <<users, usersFile>>
    /\ told' = Told(told, sent')
    /\ UNCHANGED initialized

\* ------------------------------------------------------- specifications
MsgIds == 1 .. 3                     \* message ids a command can name
Ticks == {0, 1}                      \* clock ticks between two messages

Bounded(maxMsgs, maxTasks) ==
    Len(messages) <= maxMsgs /\ Cardinality(tasks) <= maxTasks

\* The connections' life cycle and the auth command.
ConnStep ==
    \/ \E c \in Conns : Connect(c)
    \/ \E c \in Conns : BeginClose(c)
    \/ \E c \in Conns : Close(c)
    \/ \E c \in Conns, uid \in Ids : Auth(c, uid)
    \/ \E t \in tasks : AuthDone(t)
    \/ \E t \in tasks : CloseDone(t)

\* Every command but auth, from a connection that has not announced.
UnauthStep ==
    \E c \in Conns :
        /\ userId[c] = Nobody
        /\ \/ \E r \in Ids, p \in Payloads : SendMessage(c, r, p, 0)
           \/ \E other \in Ids : GetMessages(c, other)
           \/ \E sender \in Ids : MarkMessagesRead(c, sender)
           \/ GetUnreadCounts(c)
           \/ \E mid \in MsgIds, r \in Ids : UnsendMessage(c, mid, r)

\* The server after construction: no connection, an empty ledger.
Init ==
    /\ readyState = [c \in Conns |-> "new"]
    /\ userId = [c \in Conns |-> Nobody]
    /\ clients = [k \in Keys |-> NoConn]
    /\ messages = <<>>
    /\ disk = Untracked
    /\ tasks = {}
    /\ sent = <<>>
    /\ users = Unlisted
    /\ usersFile = UsersUntracked
    /\ initialized = TRUE
    /\ told = Unwatched

\* Connections come, announce, send and go; commands arrive before auth.
RelayMsgs == 1
RelayTasks == 2
Next ==
    /\ \/ ConnStep
       \/ UnauthStep
       \/ \E c \in Conns, r \in Ids : SendMessage(c, r, TextOnly, 0)
       \/ \E t \in tasks : SendDone(t)
       \/ \E t \in tasks : SaveFail(t)
    /\ Bounded(RelayMsgs, RelayTasks)'

Spec == Init /\ [][Next]_vars

\* Two users connected and announced, an empty ledger.
InitLedger ==
    /\ readyState = [c \in Conns |-> "open"]
    /\ userId = [c \in Conns |-> IF c = "c1" THEN "A" ELSE "B"]
    /\ clients = [k \in Keys |-> IF k = "A" THEN "c1" ELSE IF k = "B" THEN "c2" ELSE NoConn]
    /\ messages = <<>>
    /\ disk = Untracked
    /\ tasks = {}
    /\ sent = <<>>
    /\ users = Unlisted
    /\ usersFile = UsersUntracked
    /\ initialized = TRUE
    /\ told = Unwatched

\* The two users send, read, unsend, fetch and query; the HTTP routes of
\* unsend and mark-read are called as well.
LedgerMsgs == 1
LedgerTasks == 1
NextLedger ==
    /\ \/ \E c \in Conns, r \in Ids : SendMessage(c, r, TextOnly, 0)
       \/ \E c \in Conns, sender \in Ids : MarkMessagesRead(c, sender)
       \/ \E c \in Conns, mid \in MsgIds : UnsendMessage(c, mid, "B")
       \/ \E c \in Conns, other \in Ids : GetMessages(c, other)
       \/ \E c \in Conns : GetUnreadCounts(c)
       \/ \E mid \in MsgIds, uid \in Ids : HttpUnsend(mid, uid)
       \/ \E sender \in Ids, receiver \in Ids : HttpMarkRead(sender, receiver)
       \/ \E t \in tasks : SaveFail(t)
       \/ \E t \in tasks : SendDone(t)
       \/ \E t \in tasks : MarkReadDone(t)
       \/ \E t \in tasks : UnsendDone(t)
       \/ \E t \in tasks : HttpUnsendDone(t)
       \/ \E t \in tasks : HttpMarkReadDone(t)
    /\ Bounded(LedgerMsgs, LedgerTasks)'

LedgerSpec == InitLedger /\ [][NextLedger]_vars

\* The two users send and unsend while either may leave.
NotifyMsgs == 1
NotifyTasks == 2
NextNotify ==
    /\ \/ \E c \in Conns, r \in Ids : SendMessage(c, r, TextOnly, 0)
       \/ \E c \in Conns, mid \in DOMAIN messages, r \in Ids : UnsendMessage(c, mid, r)
       \/ \E c \in Conns : Close(c)
       \/ \E t \in tasks : SaveFail(t)
       \/ \E t \in tasks : SendDone(t)
       \/ \E t \in tasks : UnsendDone(t)
       \/ \E t \in tasks : CloseDone(t)
    /\ Bounded(NotifyMsgs, NotifyTasks)'

NotifySpec == InitLedger /\ [][NextNotify]_vars

\* A connection that has not announced announces an identity: the only
\* announce of the connection protocol.
Announce ==
    \E c \in Conns, uid \in Ids : userId[c] = Nobody /\ Auth(c, uid)

\* Connections come, announce once (the same identity or another) and go,
\* and send. The save of a send that is pending resolves or rejects in the
\* end.
DeliverMsgs == 1
DeliverTasks == 2
NextDeliver ==
    /\ \/ \E c \in Conns : Connect(c)
       \/ Announce
       \/ \E t \in tasks : AuthDone(t)
       \/ \E c \in Conns, r \in Ids : SendMessage(c, r, TextOnly, 0)
       \/ \E c \in Conns : Close(c)
       \/ \E t \in tasks : SaveFail(t)
       \/ \E t \in tasks : SendDone(t)
       \/ \E t \in tasks : CloseDone(t)
    /\ Bounded(DeliverMsgs, DeliverTasks)'

DeliverSpec ==
    /\ Init
    /\ [][NextDeliver]_vars
    /\ \A c \in Conns, mid \in MsgIds :
          WF_vars(\E t \in tasks :
                     /\ t.kind = "send" /\ t.ws = c /\ t.mid = mid
                     /\ (SendDone(t) \/ SaveFail(t)))

\* Connections come, announce once and go, send and mark as read.
ReadMsgs == 1
ReadTasks == 2
NextRead ==
    /\ \/ \E c \in Conns : Connect(c)
       \/ Announce
       \/ \E t \in tasks : AuthDone(t)
       \/ \E c \in Conns, r \in Ids : SendMessage(c, r, TextOnly, 0)
       \/ \E c \in Conns, sender \in Ids : MarkMessagesRead(c, sender)
       \/ \E c \in Conns : Close(c)
       \/ \E t \in tasks : SaveFail(t)
       \/ \E t \in tasks : SendDone(t)
       \/ \E t \in tasks : MarkReadDone(t)
       \/ \E t \in tasks : CloseDone(t)
    /\ Bounded(ReadMsgs, ReadTasks)'

ReadSpec == Init /\ [][NextRead]_vars

\* Connections come, announce (also again, as another identity) and go;
\* no message is sent. The status update awaited by an auth or a close
\* handler resolves or rejects in the end.
PresenceTasks == 2
NextPresence ==
    /\ \/ \E c \in Conns : Connect(c)
       \/ \E c \in Conns : BeginClose(c)
       \/ \E c \in Conns : Close(c)
       \/ \E c \in Conns, uid \in Ids : Auth(c, uid)
       \/ \E t \in tasks : AuthDone(t)
       \/ \E t \in tasks : CloseDone(t)
       \/ \E t \in tasks : SaveFail(t)
    /\ Cardinality(tasks') <= PresenceTasks

PresenceSpec ==
    /\ Init
    /\ [][NextPresence]_vars
    /\ \A c \in Conns :
          WF_vars(\E t \in tasks :
                     /\ t.ws = c
                     /\ (AuthDone(t) \/ CloseDone(t) \/ SaveFail(t)))

\* Two announced users' connections receive data that does not parse,
\* an auth with no userId and a sendMessage with no receiverId, next to
\* well-formed auths and sends.
ParseMsgs == 1
ParseTasks == 1
NextParse ==
    /\ \/ \E c \in Conns : Unparseable(c)
       \/ \E c \in Conns : Auth(c, Nobody)
       \/ \E c \in Conns, uid \in Ids : Auth(c, uid)
       \/ \E c \in Conns, r \in Keys : SendMessage(c, r, TextOnly, 0)
       \/ \E t \in tasks : AuthDone(t)
       \/ \E t \in tasks : SendDone(t)
       \/ \E t \in tasks : SaveFail(t)
    /\ Bounded(ParseMsgs, ParseTasks)

ParseSpec == InitLedger /\ [][NextParse]_vars

\* The ledgers of n messages the two users can have built by sending (to
\* the other or to themselves), reading and unsending.
Ledgers(n) ==
    { [i \in 1 .. n |->
          [NewMessage(i, f[i].s, f[i].r, TextOnly, 0)
              EXCEPT !.read = f[i].read, !.isUnsent = f[i].unsent]] :
      f \in [1 .. n -> [s : Ids, r : Ids, read : BOOLEAN, unsent : BOOLEAN]] }

\* On any ledger of up to MarkLen messages, the two users' connections
\* send markMessagesRead for either user's messages.
MarkLen == 2
MarkTasks == 1
InitMark ==
    /\ readyState = [c \in Conns |-> "open"]
    /\ userId = [c \in Conns |-> IF c = "c1" THEN "A" ELSE "B"]
    /\ clients = [k \in Keys |-> IF k = "A" THEN "c1" ELSE IF k = "B" THEN "c2" ELSE NoConn]
    /\ messages \in UNION { Ledgers(n) : n \in 0 .. MarkLen }
    /\ disk = Untracked
    /\ tasks = {}
    /\ sent = <<>>
    /\ users = Unlisted
    /\ usersFile = UsersUntracked
    /\ initialized = TRUE
    /\ told = Unwatched

NextMark ==
    /\ \/ \E c \in Conns, s \in Ids : MarkMessagesRead(c, s)
       \/ \E t \in tasks : MarkReadDone(t)
       \/ \E t \in tasks : SaveFail(t)
    /\ Cardinality(tasks') <= MarkTasks

MarkSpec == InitMark /\ [][NextMark]_vars

\* The ledgers of n messages, some unsent, stamped by a clock that can
\* stand still between two messages and can have been set back.
Stamps == {0, 1}
StampedLedgers(n) ==
    { [i \in 1 .. n |->
          [NewMessage(i, f[i].s, f[i].r, TextOnly, f[i].ts)
              EXCEPT !.isUnsent = f[i].unsent]] :
      f \in [1 .. n -> [s : Ids, r : Ids, unsent : BOOLEAN, ts : Stamps]] }

\* On any such ledger of up to HistoryLen messages, the two users fetch
\* their conversation with the other and with themselves.
HistoryLen == 2
InitHistory ==
    /\ readyState = [c \in Conns |-> "open"]
    /\ userId = [c \in Conns |-> IF c = "c1" THEN "A" ELSE "B"]
    /\ clients = [k \in Keys |-> IF k = "A" THEN "c1" ELSE IF k = "B" THEN "c2" ELSE NoConn]
    /\ messages \in UNION { StampedLedgers(n) : n \in 0 .. HistoryLen }
    /\ disk = Untracked
    /\ tasks = {}
    /\ sent = <<>>
    /\ users = Unlisted
    /\ usersFile = UsersUntracked
    /\ initialized = TRUE
    /\ told = Unwatched

NextHistory == \E c \in Conns, other \in Ids : GetMessages(c, other)

HistorySpec == InitHistory /\ [][NextHistory]_vars

\* The two users send messages of every payload, at the same or at a later
\* millisecond, and fetch their conversation.
SendMsgs == 1
SendTasks == 1
NextSend ==
    /\ \/ \E c \in Conns, r \in Ids, p \in Payloads, tick \in Ticks :
             SendMessage(c, r, p, tick)
       \/ \E c \in Conns, other \in Ids : GetMessages(c, other)
       \/ \E t \in tasks : SaveFail(t)
       \/ \E t \in tasks : SendDone(t)
    /\ Bounded(SendMsgs, SendTasks)'

SendSpec == InitLedger /\ [][NextSend]_vars

\* The same two users, with the contents of messages.json in the state.
InitDurable ==
    /\ readyState = [c \in Conns |-> "open"]
    /\ userId = [c \in Conns |-> IF c = "c1" THEN "A" ELSE "B"]
    /\ clients = [k \in Keys |-> IF k = "A" THEN "c1" ELSE IF k = "B" THEN "c2" ELSE NoConn]
    /\ messages = <<>>
    /\ disk = File(<<>>)
    /\ tasks = {}
    /\ sent = <<>>
    /\ users = Unlisted
    /\ usersFile = UsersUntracked
    /\ initialized = TRUE
    /\ told = Unwatched

DurableMsgs == 1
DurableTasks == 2
NextDurable ==
    /\ \/ \E c \in Conns : SendMessage(c, "B", TextOnly, 0)
       \/ \E c \in Conns, sender \in Ids : MarkMessagesRead(c, sender)
       \/ \E c \in Conns, mid \in MsgIds : UnsendMessage(c, mid, "B")
       \/ \E t \in tasks : SaveSnapshot(t)
       \/ \E t \in tasks : SaveOpen(t)
       \/ \E t \in tasks : SaveWrite(t)
       \/ \E t \in tasks : SaveFail(t)
       \/ \E t \in tasks : SendDone(t)
       \/ \E t \in tasks : MarkReadDone(t)
       \/ \E t \in tasks : UnsendDone(t)
    /\ Bounded(DurableMsgs, DurableTasks)'

DurableSpec == InitDurable /\ [][NextDurable]_vars

\* readJSONFile(MESSAGES_FILE, []): the array in the file, or [] when the
\* file's text is no JSON (empty after a truncation, or the text of one
\* save followed by the tail of a longer one).
readJSONFile(f) == IF f.state = "whole" THEN f.text ELSE <<>>

\* The process stops, at any moment, and is started again: its
\* connections are closed, its Map and its suspended handlers are gone
\* with what they had not yet written, and init() loads the ledger from
\* messages.json as it is.
Restart ==
    /\ \E c \in Conns : readyState[c] # "closed"
    /\ readyState' = [c \in Conns |-> "closed"]
    /\ userId' = [c \in Conns |-> Nobody]
    /\ clients' = [k \in Keys |-> NoConn]
    /\ tasks' = {}
    /\ messages' = readJSONFile(disk)
    /\ sent' = <<>>
    /\ users' = IF usersFile = UsersUntracked THEN users
                ELSE readUsersFile(usersFile)
    /\ UNCHANGED <<disk, usersFile>>
    /\ told' = Told(told, sent')
    /\ initialized' = TRUE

\* init() of task t: usersData.forEach(user => this.users.set(user.id,
\* user)) with the records read from users.json; then messages.json is
\* asked for.
LoadUsers(t) ==
    /\ t \in tasks /\ t.pc = "init"
    /\ users' = IF usersFile = UsersUntracked THEN users
                ELSE [u \in Ids |->
                        IF readUsersFile(usersFile)[u] # NoUser
                        THEN readUsersFile(usersFile)[u] ELSE users[u]]
    /\ LET w == [t EXCEPT !.pc = "messages"]
       IN  /\ w \notin tasks
           /\ tasks' = (tasks \ {t}) \cup {w}
    /\ sent' = <<>>
    /\ told' = Told(told, sent')
    /\ UNCHANGED <<readyState, userId, clients, messages, disk, usersFile,
                   initialized>>

\* init() of task t: this.messages = await readJSONFile(MESSAGES_FILE, []);
\* then files.json is asked for.
LoadMessages(t) ==
    /\ t \in tasks /\ t.pc = "messages"
    /\ messages' = readJSONFile(disk)
    /\ LET w == [t EXCEPT !.pc = "files"]
       IN  /\ w \notin tasks
           /\ tasks' = (tasks \ {t}) \cup {w}
    /\ sent' = <<>>
    /\ told' = Told(told, sent')
    /\ UNCHANGED <<readyState, userId, clients, disk, users, usersFile,
                   initialized>>

\* init() of task t ends with this.initialized = true, and the storage
\* call that awaited it runs to its save: createMessage pushes the
\* message, updateUserStatus writes the status (the rest of the auth
\* handler follows at once when the userId is no user).
InitDone(t, tick) ==
    /\ t \in tasks /\ t.pc = "files"
    /\ initialized' = TRUE
    /\ IF t.kind = "send"
       THEN LET w == Task("send", t.ws, "access", t.who, t.other, Len(messages) + 1)
            IN  /\ w \notin tasks
                /\ messages' = createMessage(messages, t.who, t.other, t.snap[1],
                                             Now(messages, tick))
                /\ tasks' = (tasks \ {t}) \cup {w}
                /\ sent' = <<>>
                /\ UNCHANGED users
       ELSE /\ t.kind = "auth"
            /\ users' = updateUserStatus(users, t.who, "online")
            /\ IF HasUser(users, t.who)
               THEN LET w == StatusTask("auth", t.ws, t.who, users')
                    IN  /\ w \notin tasks
                        /\ tasks' = (tasks \ {t}) \cup {w}
                        /\ sent' = <<>>
               ELSE /\ tasks' = tasks \ {t}
                    /\ sent' = broadcastUserStatus(clients, readyState, t.who, TRUE)
                               \o sendUnreadCountsToUser(clients, readyState, messages, t.who)
            /\ UNCHANGED messages
    /\ told' = Told(told, sent')
    /\ UNCHANGED <<readyState, userId, clients, disk, usersFile>>

\* The commands of the two users with the writes of their saves, and a
\* restart of the process.
RestartMsgs == 1
RestartTasks == 1
NextRestart ==
    /\ \/ \E c \in Conns : SendMessage(c, "B", TextOnly, 0)
       \/ \E c \in Conns, sender \in Ids : MarkMessagesRead(c, sender)
       \/ \E c \in Conns, mid \in MsgIds : UnsendMessage(c, mid, "B")
       \/ \E t \in tasks : SaveSnapshot(t)
       \/ \E t \in tasks : SaveOpen(t)
       \/ \E t \in tasks : SaveWrite(t)
       \/ \E t \in tasks : SaveFail(t)
       \/ \E t \in tasks : SendDone(t)
       \/ \E t \in tasks : MarkReadDone(t)
       \/ \E t \in tasks : UnsendDone(t)
       \/ Restart
    /\ Bounded(RestartMsgs, RestartTasks)'

RestartSpec == InitDurable /\ [][NextRestart]_vars

\* The two users' commands with the writes of their saves, and their
\* fetches of the conversation and of the unread counts in between.
FetchMsgs == 1
FetchTasks == 1
NextFetch ==
    /\ \/ \E c \in Conns : SendMessage(c, "B", TextOnly, 0)
       \/ \E c \in Conns, sender \in Ids : MarkMessagesRead(c, sender)
       \/ \E c \in Conns, mid \in MsgIds : UnsendMessage(c, mid, "B")
       \/ \E c \in Conns, other \in Ids : GetMessages(c, other)
       \/ \E c \in Conns : GetUnreadCounts(c)
       \/ \E t \in tasks : SaveSnapshot(t)
       \/ \E t \in tasks : SaveOpen(t)
       \/ \E t \in tasks : SaveWrite(t)
       \/ \E t \in tasks : SaveFail(t)
       \/ \E t \in tasks : SendDone(t)
       \/ \E t \in tasks : MarkReadDone(t)
       \/ \E t \in tasks : UnsendDone(t)
    /\ Bounded(FetchMsgs, FetchTasks)'

FetchSpec == InitDurable /\ [][NextFetch]_vars

\* The commands of the two users, two saves at a time, every save
\* succeeding unless the process is stopped first.
CrashMsgs == 1
CrashTasks == 2
NextCrash ==
    /\ \/ \E c \in Conns : SendMessage(c, "B", TextOnly, 0)
       \/ \E c \in Conns, sender \in Ids : MarkMessagesRead(c, sender)
       \/ \E c \in Conns, mid \in MsgIds : UnsendMessage(c, mid, "B")
       \/ \E t \in tasks : SaveSnapshot(t)
       \/ \E t \in tasks : SaveOpen(t)
       \/ \E t \in tasks : SaveWrite(t)
       \/ \E t \in tasks : SendDone(t)
       \/ \E t \in tasks : MarkReadDone(t)
       \/ \E t \in tasks : UnsendDone(t)
       \/ Restart
    /\ Bounded(CrashMsgs, CrashTasks)'

CrashSpec == InitDurable /\ [][NextCrash]_vars

\* Connections come, announce once, send and unsend, and go: at once, or
\* with the transport down for a while before "close" is emitted.
FailMsgs == 1
FailTasks == 1
NextFail ==
    /\ \/ \E c \in Conns : Connect(c)
       \/ Announce
       \/ \E t \in tasks : AuthDone(t)
       \/ \E c \in Conns, r \in Ids : SendMessage(c, r, TextOnly, 0)
       \/ \E c \in Conns, mid \in DOMAIN messages :
             UnsendMessage(c, mid, messages[mid].receiverId)
       \/ \E c \in Conns : BeginClose(c)
       \/ \E c \in Conns : Close(c)
       \/ \E t \in tasks : SaveFail(t)
       \/ \E t \in tasks : SendDone(t)
       \/ \E t \in tasks : UnsendDone(t)
       \/ \E t \in tasks : CloseDone(t)
    /\ Bounded(FailMsgs, FailTasks)'

FailSpec == Init /\ [][NextFail]_vars

\* Connections come, announce (also an identity another connection
\* holds), ask for their unread counts and go.
QueryTasks == 2
NextQuery ==
    /\ \/ \E c \in Conns : Connect(c)
       \/ \E c \in Conns, uid \in Ids : Auth(c, uid)
       \/ \E t \in tasks : AuthDone(t)
       \/ \E c \in Conns : GetUnreadCounts(c)
       \/ \E c \in Conns : Close(c)
       \/ \E t \in tasks : CloseDone(t)
       \/ \E t \in tasks : SaveFail(t)
    /\ Cardinality(tasks') <= QueryTasks

QuerySpec == Init /\ [][NextQuery]_vars

\* On any ledger of up to RetractLen unread messages, the two users'
\* connections and the unsend route ask to unsend any id, one in the
\* ledger or not.
RetractLen == 2
RetractTasks == 1
InitRetract ==
    /\ readyState = [c \in Conns |-> "open"]
    /\ userId = [c \in Conns |-> IF c = "c1" THEN "A" ELSE "B"]
    /\ clients = [k \in Keys |-> IF k = "A" THEN "c1" ELSE IF k = "B" THEN "c2" ELSE NoConn]
    /\ messages \in { l \in UNION { Ledgers(n) : n \in 0 .. RetractLen } :
                         \A i \in DOMAIN l : ~l[i].read }
    /\ disk = Untracked
    /\ tasks = {}
    /\ sent = <<>>
    /\ users = Unlisted
    /\ usersFile = UsersUntracked
    /\ initialized = TRUE
    /\ told = Unwatched

NextRetract ==
    /\ \/ \E c \in Conns, mid \in MsgIds, r \in Ids : UnsendMessage(c, mid, r)
       \/ \E mid \in MsgIds, uid \in Ids : HttpUnsend(mid, uid)
       \/ \E t \in tasks : UnsendDone(t)
       \/ \E t \in tasks : HttpUnsendDone(t)
       \/ \E t \in tasks : SaveFail(t)
    /\ Cardinality(tasks') <= RetractTasks

RetractSpec == InitRetract /\ [][NextRetract]_vars

\* Connections come, announce once and go, while messages are sent to B,
\* marked as read and unsent.
ReplayMsgs == 1
ReplayTasks == 1
NextReplay ==
    /\ \/ \E c \in Conns : Connect(c)
       \/ Announce
       \/ \E t \in tasks : AuthDone(t)
       \/ \E c \in Conns : SendMessage(c, "B", TextOnly, 0)
       \/ \E c \in Conns, mid \in DOMAIN messages :
             UnsendMessage(c, mid, messages[mid].receiverId)
       \/ \E c \in Conns, sender \in Ids : MarkMessagesRead(c, sender)
       \/ \E c \in Conns : Close(c)
       \/ \E t \in tasks : SaveFail(t)
       \/ \E t \in tasks : SendDone(t)
       \/ \E t \in tasks : UnsendDone(t)
       \/ \E t \in tasks : MarkReadDone(t)
       \/ \E t \in tasks : CloseDone(t)
    /\ Bounded(ReplayMsgs, ReplayTasks)'

ReplaySpec == Init /\ [][NextReplay]_vars

\* The server after construction with no user yet and an empty users.json
\* whose contents are part of the state.
InitDirectory ==
    /\ readyState = [c \in Conns |-> "new"]
    /\ userId = [c \in Conns |-> Nobody]
    /\ clients = [k \in Keys |-> NoConn]
    /\ messages = <<>>
    /\ disk = Untracked
    /\ tasks = {}
    /\ sent = <<>>
    /\ users = NoUsers
    /\ usersFile = UsersFile(NoUsers)
    /\ initialized = TRUE
    /\ told = Unwatched

\* Users register, log in, connect, announce and leave, with the writes
\* of users.json, and the process is stopped and started again.
DirectoryTasks == 1
NextDirectory ==
    /\ \/ \E uid \in Ids : CreateUser(uid)
       \/ \E uid \in Ids : Login(uid)
       \/ \E c \in Conns : Connect(c)
       \/ \E c \in Conns, uid \in Ids : Auth(c, uid)
       \/ \E c \in Conns : Close(c)
       \/ \E t \in tasks : UsersSnapshot(t)
       \/ \E t \in tasks : UsersOpen(t)
       \/ \E t \in tasks : UsersWrite(t)
       \/ \E t \in tasks : SaveFail(t)
       \/ \E t \in tasks : RegisterDone(t)
       \/ \E t \in tasks : LoginDone(t)
       \/ \E t \in tasks : AuthDone(t)
       \/ \E t \in tasks : CloseDone(t)
       \/ Restart
    /\ Cardinality(tasks') <= DirectoryTasks

DirectorySpec == InitDirectory /\ [][NextDirectory]_vars

\* sendMessage commands that carry a senderId field of their own, naming
\* user A or user B.
ClaimsA == [content |-> "I am A", fileUrl |-> NoFile, senderId |-> "A"]
ClaimsB == [content |-> "I am B", fileUrl |-> NoFile, senderId |-> "B"]

\* Connections announce, also a second identity, and send commands with
\* and without a senderId field.
SenderMsgs == 1
SenderTasks == 1
NextSender ==
    /\ \/ \E c \in Conns : Connect(c)
       \/ \E c \in Conns, uid \in Ids : Auth(c, uid)
       \/ \E t \in tasks : AuthDone(t)
       \/ \E c \in Conns, p \in {TextOnly, ClaimsA, ClaimsB} :
             SendMessage(c, "B", p, 0)
       \/ \E t \in tasks : SendDone(t)
       \/ \E t \in tasks : SaveFail(t)
    /\ Bounded(SenderMsgs, SenderTasks)'

SenderSpec == Init /\ [][NextSender]_vars

\* The two announced users send several messages, each send suspended at
\* its save; the saves resolve in any order.
OrderMsgs == 2
OrderTasks == 2
NextOrder ==
    /\ \/ \E c \in Conns, r \in Ids : SendMessage(c, r, TextOnly, 0)
       \/ \E t \in tasks : SendDone(t)
       \/ \E t \in tasks : SaveFail(t)
    /\ Bounded(OrderMsgs, OrderTasks)'

OrderSpec == InitLedger /\ [][NextOrder]_vars

\* The server right after its start: no connection, the storage not yet
\* initialized, messages.json with an empty ledger.
InitCold ==
    /\ readyState = [c \in Conns |-> "new"]
    /\ userId = [c \in Conns |-> Nobody]
    /\ clients = [k \in Keys |-> NoConn]
    /\ messages = <<>>
    /\ disk = File(<<>>)
    /\ tasks = {}
    /\ sent = <<>>
    /\ users = Unlisted
    /\ usersFile = UsersUntracked
    /\ initialized = FALSE
    /\ told = Unwatched

\* Connections announce and send while the first storage calls are still
\* in init(); the reads of init() take their turns in any order. The
\* behaviours end where the first saves of messages.json are waited for.
ColdMsgs == 1
ColdTasks == 2
NextCold ==
    /\ \/ \E c \in Conns : Connect(c)
       \/ \E c \in Conns, uid \in Ids : Auth(c, uid)
       \/ \E c \in Conns : SendMessage(c, "B", TextOnly, 0)
       \/ \E t \in tasks : LoadUsers(t)
       \/ \E t \in tasks : LoadMessages(t)
       \/ \E t \in tasks : InitDone(t, 0)
       \/ \E t \in tasks : AuthDone(t)
    /\ Bounded(ColdMsgs, ColdTasks)'

ColdSpec == InitCold /\ [][NextCold]_vars

\* Two users connected and announced, an empty ledger, and what their
\* clients are told is part of the state.
InitBadge ==
    /\ readyState = [c \in Conns |-> "open"]
    /\ userId = [c \in Conns |-> IF c = "c1" THEN "A" ELSE "B"]
    /\ clients = [k \in Keys |-> IF k = "A" THEN "c1" ELSE IF k = "B" THEN "c2" ELSE NoConn]
    /\ messages = <<>>
    /\ disk = Untracked
    /\ tasks = {}
    /\ sent = <<>>
    /\ users = Unlisted
    /\ usersFile = UsersUntracked
    /\ initialized = TRUE
    /\ told = NothingTold

\* The two users send, read and unsend; every save resolves.
BadgeMsgs == 1
BadgeTasks == 1
NextBadge ==
    /\ \/ \E c \in Conns, r \in Ids : SendMessage(c, r, TextOnly, 0)
       \/ \E c \in Conns, sender \in Ids : MarkMessagesRead(c, sender)
       \/ \E c \in Conns, mid \in DOMAIN messages :
             UnsendMessage(c, mid, messages[mid].receiverId)
       \/ \E t \in tasks : SendDone(t)
       \/ \E t \in tasks : MarkReadDone(t)
       \/ \E t \in tasks : UnsendDone(t)
    /\ Bounded(BadgeMsgs, BadgeTasks)'

BadgeSpec == InitBadge /\ [][NextBadge]_vars

\* The server after construction, and the last userStatus sent about
\* every user is part of the state.
InitEvent ==
    /\ readyState = [c \in Conns |-> "new"]
    /\ userId = [c \in Conns |-> Nobody]
    /\ clients = [k \in Keys |-> NoConn]
    /\ messages = <<>>
    /\ disk = Untracked
    /\ tasks = {}
    /\ sent = <<>>
    /\ users = Unlisted
    /\ usersFile = UsersUntracked
    /\ initialized = TRUE
    /\ told = NothingTold

\* Connections come, announce and go; every status update resolves, in
\* any order.
EventTasks == 2
NextEvent ==
    /\ \/ \E c \in Conns : Connect(c)
       \/ \E c \in Conns, uid \in Ids : Auth(c, uid)
       \/ \E c \in Conns : Close(c)
       \/ \E t \in tasks : AuthDone(t)
       \/ \E t \in tasks : CloseDone(t)
    /\ Cardinality(tasks') <= EventTasks

EventSpec == InitEvent /\ [][NextEvent]_vars

\* ---------------------------------------------------------------- claims
\* The pushes of the last step that have the given type.
SentOfType(type) == { i \in DOMAIN sent : sent[i].type = type }

\* The ledger's message with the given id is marked unsent.
IsUnsentId(msgs, mid) == \E i \in DOMAIN msgs : msgs[i].id = mid /\ msgs[i].isUnsent

\* C1: once an unsend of m by its sender has succeeded, no conversation
\* between any two users and no history snapshot contains m, in any later
\* state. Step by step: when unsendMessage returns true (the handler or the
\* route resumes) m is marked unsent; a message marked unsent stays in the
\* ledger marked unsent; and no message marked unsent is in the result of
\* getMessagesBetweenUsers for any pair, nor in a "messages" push.
C1_UnsentNeverShown ==
    [][ /\ \A t \in tasks :
             (UnsendDone(t) \/ HttpUnsendDone(t)) => IsUnsentId(messages', t.mid)
        /\ \A i \in DOMAIN messages :
             messages[i].isUnsent =>
                /\ i \in DOMAIN messages'
                /\ messages'[i].id = messages[i].id
                /\ messages'[i].isUnsent
        /\ \A a \in Ids, b \in Ids :
             LET conv == getMessagesBetweenUsers(messages', a, b)
             IN  \A k \in DOMAIN conv : ~IsUnsentId(messages', conv[k].id)
        /\ \A e \in SentOfType("messages")' :
             \A k \in DOMAIN sent'[e].body :
                ~IsUnsentId(messages', sent'[e].body[k].id)
      ]_vars

\* C1 witness: the sender of the only message has unsent it and then
\* fetches the conversation: the snapshot pushed to it is empty.
C1_Witness ==
    /\ Len(messages) = 1 /\ messages[1].isUnsent
    /\ tasks = {}
    /\ \E e \in SentOfType("messages") :
          /\ sent[e].body = <<>>
          /\ userId[sent[e].to] = messages[1].senderId

\* C2: an unsend command for m from an identity other than m.senderId
\* fails: the ledger is as before (so m stays in the conversation), no
\* handler is left suspended that could push later, and nothing is pushed;
\* this on the WebSocket and on the HTTP route.
C2_UnsendByOtherFails ==
    [][ \A i \in DOMAIN messages :
          /\ \A c \in Conns, r \in Ids :
                (UnsendMessage(c, messages[i].id, r) /\ userId[c] # messages[i].senderId)
                => (messages' = messages /\ tasks' = tasks /\ sent' = <<>>)
          /\ \A uid \in Ids :
                (HttpUnsend(messages[i].id, uid) /\ uid # messages[i].senderId)
                => (messages' = messages /\ tasks' = tasks /\ sent' = <<>>)
      ]_vars

\* C2 witness: the receiver of a visible message is connected and
\* announced, and its unsend command for the message can be handled now.
C2_Witness ==
    /\ Len(messages) = 1 /\ ~messages[1].isUnsent
    /\ messages[1].senderId = "A" /\ messages[1].receiverId = "B"
    /\ readyState["c2"] = "open" /\ userId["c2"] = "B"
    /\ tasks = {} /\ sent = <<>>
    /\ ENABLED UnsendMessage("c2", 1, "A")
    /\ Len(getMessagesBetweenUsers(messages, "A", "B")) = 1

\* The number of ledger messages from c to u that are unread and not unsent.
UnreadFrom(msgs, c, u) ==
    Cardinality({ i \in DOMAIN msgs :
        msgs[i].senderId = c /\ msgs[i].receiverId = u
        /\ msgs[i].read = FALSE /\ msgs[i].isUnsent = FALSE })

C4_NoEmptyMessage ==
    \A i \in DOMAIN messages :
        messages[i].content # NoText \/ messages[i].fileUrl # NoFile

\* C5: commit-then-notify. A step that changes the ledger pushes nothing;
\* a step pushes only when it resumes a handler whose save has resolved,
\* or handles a command that changed nothing; a save that fails pushes
\* nothing; and when a "message" or a "messageUnsent" is pushed,
\* messages.json holds, whole, a ledger with that message, marked unsent
\* for a "messageUnsent".
C5_CommitThenNotify ==
    [][ /\ (messages' # messages) => (sent' = <<>>)
        /\ (sent' # <<>>) =>
              \/ \E t \in tasks : t.pc = "close" /\ tasks' = tasks \ {t}
              \/ tasks' = tasks /\ messages' = messages
        /\ \A t \in tasks : SaveFail(t) => (sent' = <<>>)
        /\ \A e \in SentOfType("message")' :
              /\ disk'.state = "whole"
              /\ \E i \in DOMAIN disk'.text : disk'.text[i].id = sent'[e].body.id
        /\ \A e \in SentOfType("messageUnsent")' :
              /\ disk'.state = "whole"
              /\ IsUnsentId(disk'.text, sent'[e].body.messageId)
      ]_vars

\* The connections pushed an event of the given type by the last step.
Targets(type) == { sent[e].to : e \in SentOfType(type) }

\* The open connections among those registered for the identities us.
Online(us) == { c \in { clients[u] : u \in us } : IsOpen(readyState, c) }

\* C6: when an unsend of m succeeds, "messageUnsent" is pushed to the
\* requester's connection and to the connection registered for the
\* ledger's m.receiverId, when open, and to no other connection, whatever
\* receiverId the command carried.
C6_RetractedToLedgerReceiver ==
    [][ \A t \in tasks :
          UnsendDone(t) =>
             LET m == MessageById(messages, t.mid)
             IN  Targets("messageUnsent")' =
                    { c \in {t.ws} : IsOpen(readyState, c) }
                    \cup Online({m.receiverId})
      ]_vars

\* A send of message mid, from connection c, is suspended at its save.
PendingSend(c, mid) ==
    \E t \in tasks : t.kind = "send" /\ t.ws = c /\ t.mid = mid

\* The connection registered for the receiver of message mid.
ReceiverWs(mid) ==
    IF mid \in DOMAIN messages THEN clients[messages[mid].receiverId] ELSE NoConn

\* The last step pushed message mid to connection c.
Pushed(c, mid) ==
    \E e \in SentOfType("message") : sent[e].to = c /\ sent[e].body.id = mid

Command(c) ==
    \/ \E r \in Ids, p \in Payloads : SendMessage(c, r, p, 0)
    \/ \E other \in Ids : GetMessages(c, other)
    \/ \E sender \in Ids : MarkMessagesRead(c, sender)
    \/ GetUnreadCounts(c)
    \/ \E mid \in MsgIds, r \in Ids : UnsendMessage(c, mid, r)

\* C9: a command other than auth on a connection that has not announced
\* changes neither the ledger nor the clients Map, starts no handler that
\* could act later, pushes nothing to any connection, and leaves the
\* connection open and without identity.
C9_UnauthDiscarded ==
    [][ \A c \in Conns :
          (userId[c] = Nobody /\ Command(c)) =>
             /\ messages' = messages /\ clients' = clients /\ tasks' = tasks
             /\ disk' = disk /\ sent' = <<>>
             /\ readyState' = readyState /\ readyState'[c] = "open"
             /\ userId' = userId /\ userId'[c] = Nobody
      ]_vars

\* C9 witness: c2 is open and has not announced while A, on c1, is online
\* and has a message in the ledger; a send and an unsend of that message
\* from c2 can be handled now.
C9_Witness ==
    /\ readyState["c2"] = "open" /\ userId["c2"] = Nobody
    /\ readyState["c1"] = "open" /\ clients["A"] = "c1"
    /\ Len(messages) = 1 /\ messages[1].senderId = "A" /\ tasks = {}
    /\ ENABLED SendMessage("c2", "A", TextOnly, 0)
    /\ ENABLED UnsendMessage("c2", 1, "A")

\* C10: an auth command from a connection that has not announced
\* registers the identity to that connection and gives the connection
\* the identity; when the handler goes on, "userStatus" online for the
\* identity is pushed to every open connection of the clients Map and
\* "unreadCounts" equal to getUnreadCountsForUser(identity) is pushed to
\* the caller, when the caller is still open under that identity.
C10_AnnounceRegistersAndPushes ==
    [][ /\ \A c \in Conns, uid \in Ids :
              (userId[c] = Nobody /\ Auth(c, uid)) =>
                 clients'[uid] = c /\ userId'[c] = uid
        /\ \A t \in tasks :
              (AuthDone(t) /\ IsOpen(readyState, t.ws) /\ userId[t.ws] = t.who) =>
                 /\ Targets("userStatus")' = Online(Keys)
                 /\ \A e \in SentOfType("userStatus")' :
                       sent'[e].body = [userId |-> t.who, online |-> TRUE]
                 /\ \E e \in SentOfType("unreadCounts")' :
                       /\ sent'[e].to = t.ws
                       /\ sent'[e].body.counts = getUnreadCountsForUser(messages, t.who)
                       /\ sent'[e].body.total =
                             UnreadFrom(messages, "A", t.who) + UnreadFrom(messages, "B", t.who)
      ]_vars

\* The close handler of connection c is suspended at its status update.
PendingClose(c) == \E t \in tasks : t.kind = "close" /\ t.ws = c

\* C11: the close of a connection that has announced removes the entry
\* of its identity from the clients Map and, when the handler goes on,
\* "userStatus" offline for that identity is pushed to every open
\* connection of the Map; the close of a connection that never announced
\* changes no entry, starts no handler and pushes nothing, and no offline
\* "userStatus" comes from anything but the close of an announced
\* connection. A close handler that is suspended comes to its end, with
\* that broadcast or (status update rejected) with no push.
C11_CloseUnregistersAndBroadcasts ==
    /\ [][ /\ \A c \in Conns :
                Close(c) =>
                   IF userId[c] # Nobody
                   THEN /\ clients'[userId[c]] = NoConn
                        /\ \A k \in Keys \ {userId[c]} : clients'[k] = clients[k]
                   ELSE clients' = clients /\ tasks' = tasks /\ sent' = <<>>
          /\ \A t \in tasks :
                CloseDone(t) =>
                   /\ t.who # Nobody
                   /\ Targets("userStatus")' = Online(Keys)
                   /\ \A e \in DOMAIN sent' :
                         /\ sent'[e].type = "userStatus"
                         /\ sent'[e].body = [userId |-> t.who, online |-> FALSE]
          /\ \A e \in SentOfType("userStatus")' :
                ~sent'[e].body.online =>
                   \E u \in tasks :
                      /\ u.kind = "close" /\ tasks' = tasks \ {u}
                      /\ sent'[e].body.userId = u.who
                      /\ readyState[u.ws] = "closed"
          ]_vars
    /\ \A c \in Conns :
          PendingClose(c) ~>
             /\ ~PendingClose(c)
             /\ \/ sent = <<>>
                \/ \E e \in SentOfType("userStatus") : ~sent[e].body.online

\* C11 witness: c1, announced as A, has closed while c2 is online as B:
\* A has no entry in the Map and c2 has just been pushed A's offline.
C11_Witness ==
    /\ readyState["c1"] = "closed" /\ userId["c1"] = "A"
    /\ clients["A"] = NoConn /\ clients["B"] = "c2"
    /\ ~PendingClose("c1")
    /\ \E e \in SentOfType("userStatus") :
          sent[e].to = "c2" /\ sent[e].body = [userId |-> "A", online |-> FALSE]

\* C12: once a connection has closed, a message handler of it that was
\* suspended at an await when the close came ends without changing the
\* messages, without changing the clients Map and without a push to any
\* connection.
C12_ClosedIsTerminal ==
    [][\A t \in tasks :
          ( /\ t.ws \in Conns
            /\ t.kind # "close"
            /\ readyState[t.ws] = "closed"
            /\ tasks' = tasks \ {t} )
          => /\ messages' = messages
             /\ clients' = clients
             /\ sent' = <<>>]_vars

\* The connections that hold an entry of the clients Map.
Registered(cl) == {cl[k] : k \in Keys} \ {NoConn}

\* C13: the clients Map gives every identity one connection or none; an
\* auth for an identity makes the announcing connection the entry of that
\* identity, whichever connection held it, and changes no other entry;
\* and neither the auth nor its continuation pushes anything to a
\* connection that holds no entry, as the connection just replaced.
C13_LastWriterWins ==
    /\ [](clients \in [Keys -> Conns \cup {NoConn}])
    /\ [][ /\ \A c \in Conns, uid \in Ids :
                Auth(c, uid) =>
                   /\ clients'[uid] = c
                   /\ \A k \in Keys \ {uid} : clients'[k] = clients[k]
                   /\ sent' = <<>>
          /\ \A t \in tasks :
                AuthDone(t) =>
                   /\ clients' = clients
                   /\ \A e \in DOMAIN sent' : sent'[e].to \in Registered(clients)
          ]_vars

\* C13 witness: c1 and c2 are both open and both announced A, c2 last;
\* the entry of A is c2, c1 holds no entry, and the auth of c2 has just
\* ended with pushes that all went to c2.
C13_Witness ==
    /\ readyState["c1"] = "open" /\ readyState["c2"] = "open"
    /\ userId["c1"] = "A" /\ userId["c2"] = "A"
    /\ clients["A"] = "c2"
    /\ "c1" \notin Registered(clients)
    /\ tasks = {}
    /\ sent # <<>>
    /\ \A e \in DOMAIN sent : sent[e].to = "c2"

\* C14: a step that pushes "userStatus" pushes it to every open
\* connection that holds an entry of the clients Map, and every push of
\* any type goes to a connection that is open and holds an entry of the
\* Map when the push is made.
C14_PushesFollowRegistry ==
    [][ /\ SentOfType("userStatus")' # {} =>
              Targets("userStatus")' = (Online(Keys))'
        /\ \A e \in DOMAIN sent' :
              sent'[e].to \in (Online(Keys))'
      ]_vars

\* C15: data that does not parse, an auth without userId and a
\* sendMessage without receiverId leave the connection open with the
\* userId it had, leave the messages and the clients Map as they were, and
\* push nothing, at once or later.
C15_MalformedDiscarded ==
    [][ /\ \A c \in Conns :
            ( \/ Unparseable(c)
              \/ Auth(c, Nobody)
              \/ SendMessage(c, Nobody, TextOnly, 0) )
            => /\ readyState'[c] = "open"
               /\ userId' = userId
               /\ messages' = messages
               /\ clients' = clients
               /\ tasks' = tasks
               /\ sent' = <<>>
      ]_vars

\* The indices of the messages marked read.
ReadSet(msgs) == { i \in DOMAIN msgs : msgs[i].read }

\* C16: whenever a markMessagesRead command has applied
\* markMessagesAsRead(s, r) to the ledger, applying it again changes
\* nothing: the ledger, and so the set of read messages, is the same
\* after two applications as after one.
C16_MarkReadIdempotent ==
    [][\A s, r \in Ids :
          (\E c \in Conns : userId[c] = r /\ MarkMessagesRead(c, s))
          => /\ messages' = markMessagesAsRead(messages, s, r)
             /\ markMessagesAsRead(messages', s, r) = messages'
             /\ ReadSet(markMessagesAsRead(messages', s, r)) = ReadSet(messages')
             /\ ~hasChanges(messages', s, r)]_vars

\* C16 witness: both messages of the ledger went from A to B and have
\* just been marked read by one markMessagesRead of B, still being saved.
C16_Witness ==
    /\ Len(messages) = 2
    /\ \A i \in DOMAIN messages :
          /\ messages[i].senderId = "A" /\ messages[i].receiverId = "B"
          /\ messages[i].read /\ ~messages[i].isUnsent
    /\ \E t \in tasks : t.kind = "markRead" /\ t.ws = "c2" /\ t.other = "A"

\* Message m went from s to r and is neither read nor unsent.
Unread(m, s, r) ==
    m.senderId = s /\ m.receiverId = r /\ m.read = FALSE /\ m.isUnsent = FALSE

\* C17: a markMessagesRead for sender s by the connection of r leaves the
\* ledger with the same messages in the same order; a message is read
\* afterwards exactly if it was read before or went from s to r unread
\* and not unsent; no other field of any message changes, so messages of
\* other pairs, of the direction r to s and unsent ones are as before;
\* and when no message matches, the ledger is as before and the handler
\* ends in that step, with nothing to save.
C17_MarkReadExact ==
    [][\A c \in Conns, s \in Ids :
          (userId[c] # Nobody /\ MarkMessagesRead(c, s)) =>
             LET r == userId[c]
             IN  /\ DOMAIN messages' = DOMAIN messages
                 /\ \A i \in DOMAIN messages :
                       /\ messages'[i].read =
                             (messages[i].read \/ Unread(messages[i], s, r))
                       /\ [messages'[i] EXCEPT !.read = FALSE]
                             = [messages[i] EXCEPT !.read = FALSE]
                       /\ ~Unread(messages[i], s, r) => messages'[i] = messages[i]
                 /\ (\A i \in DOMAIN messages : ~Unread(messages[i], s, r))
                       => messages' = messages /\ tasks' = tasks]_vars

\* C17 witness: of two messages from A to B, the first unsent and the
\* second not, a markMessagesRead of B has marked the second alone.
C17_Witness ==
    /\ Len(messages) = 2
    /\ \A i \in DOMAIN messages :
          messages[i].senderId = "A" /\ messages[i].receiverId = "B"
    /\ messages[1].isUnsent /\ ~messages[1].read
    /\ ~messages[2].isUnsent /\ messages[2].read
    /\ \E t \in tasks : t.kind = "markRead" /\ t.ws = "c2" /\ t.other = "A"

\* Message m is between a and b, in either direction.
Between(m, a, b) ==
    {m.senderId, m.receiverId} = {a, b}

\* C18: the "messages" pushed for a getMessages of a about b lists
\* messages of the ledger only, each not unsent and between a and b in
\* either direction; every such message of the ledger is listed, and once;
\* a message with a smaller timestamp is listed before one with a larger,
\* and of two with equal timestamps the one appended to the ledger first
\* is listed first.
C18_ConversationExact ==
    [][\A c \in Conns, b \in Ids :
          GetMessages(c, b) =>
             /\ Len(sent') = 1
             /\ sent'[1].to = c /\ sent'[1].type = "messages"
             /\ LET a == userId[c]
                    L == sent'[1].body
                    want == { i \in DOMAIN messages :
                                Between(messages[i], a, b) /\ ~messages[i].isUnsent }
                IN  /\ \A x \in DOMAIN L :
                          L[x].id \in want /\ L[x] = messages[L[x].id]
                    /\ \A i \in want : \E x \in DOMAIN L : L[x].id = i
                    /\ \A x, y \in DOMAIN L : x # y => L[x].id # L[y].id
                    /\ \A x, y \in DOMAIN L :
                          \/ L[x].timestamp < L[y].timestamp
                          \/ L[x].timestamp = L[y].timestamp /\ L[x].id < L[y].id
                          => x < y]_vars

\* C18 witness: the ledger holds a message from A to B stamped 1 and then
\* one from B to A stamped 0, and A has just been pushed the conversation
\* with the second listed first.
C18_Witness ==
    /\ Len(messages) = 2
    /\ messages[1].senderId = "A" /\ messages[1].receiverId = "B"
    /\ messages[2].senderId = "B" /\ messages[2].receiverId = "A"
    /\ messages[1].timestamp = 1 /\ messages[2].timestamp = 0
    /\ Len(sent) = 1 /\ sent[1].to = "c1" /\ sent[1].type = "messages"
    /\ Len(sent[1].body) = 2
    /\ sent[1].body[1].id = 2 /\ sent[1].body[2].id = 1

\* C19: a message is appended with read and isUnsent false, and a message
\* that is read, or unsent, in one state of the ledger is so in the next
\* state of the ledger that holds it, whether the step is a command, an
\* end of a handler or a restart of the process.
C19_FlagsMonotonic ==
    [][ /\ \A i \in DOMAIN messages' \ DOMAIN messages :
              ~messages'[i].read /\ ~messages'[i].isUnsent
        /\ \A i \in DOMAIN messages \cap DOMAIN messages' :
              /\ messages[i].read => messages'[i].read
              /\ messages[i].isUnsent => messages'[i].isUnsent
      ]_vars

\* Message m without its two flags.
Unflagged(m) == [m EXCEPT !.read = FALSE, !.isUnsent = FALSE]

\* C20: every step of the relay keeps every message of the ledger at its
\* place with its id, senderId, receiverId, content, fileUrl and timestamp,
\* so the ids of the ledger are never fewer; and an unsendMessage command
\* leaves the ledger as long as it was and, at most, sets isUnsent on the
\* message it names.
C20_UnsendKeepsRecord ==
    [][ /\ \A i \in DOMAIN messages :
              /\ i \in DOMAIN messages'
              /\ Unflagged(messages'[i]) = Unflagged(messages[i])
        /\ { messages[i].id : i \in DOMAIN messages }
              \subseteq { messages'[i].id : i \in DOMAIN messages' }
        /\ \A c \in Conns, mid \in MsgIds :
              UnsendMessage(c, mid, "B") =>
                 /\ Len(messages') = Len(messages)
                 /\ \A i \in DOMAIN messages :
                       messages'[i] # messages[i] =>
                          /\ messages[i].id = mid
                          /\ messages'[i] = [messages[i] EXCEPT !.isUnsent = TRUE]
      ]_vars

\* C20 witness: A's message to B has been unsent by A and the handler has
\* pushed "messageUnsent"; the record is in the ledger with its content.
C20_Witness ==
    /\ Len(messages) = 1
    /\ messages[1].id = 1 /\ messages[1].isUnsent
    /\ messages[1].senderId = "A" /\ messages[1].receiverId = "B"
    /\ messages[1].content = TextOnly.content
    /\ SentOfType("messageUnsent") # {}

\* C21: while messages.json holds a whole ledger, a getMessages and a
\* getUnreadCounts are answered from that ledger: the answer shows no
\* message, no read flag and no unsent flag that a command has put into
\* the memory but whose save has not written the file, or has failed.
C21_NoUncommittedRead ==
    [][disk.state = "whole" =>
          \A c \in Conns :
             userId[c] # Nobody =>
                /\ \A other \in Ids :
                      GetMessages(c, other) =>
                         sent' = SendIfOpen(readyState, c, "messages",
                                    getMessagesBetweenUsers(disk.text, userId[c], other))
                /\ GetUnreadCounts(c) =>
                      sent' = sendUnreadCountsToUser(clients, readyState,
                                                     disk.text, userId[c])]_vars

\* A handler of the given kind is still awaiting its save; mid is the
\* message a send created, 0 for the other kinds.
Saving(kind, mid) == \E t \in tasks : t.kind = kind /\ t.mid = mid

\* C22: when the process is started again, the ledger it loads holds
\* every message whose createMessage had returned, marked read if a
\* markMessagesAsRead that marked it had returned and marked unsent if the
\* unsendMessage that marked it had returned (no save ever being
\* rejected), also when two saves were in flight together.
C22_RestartLoadsCommitted ==
    [][Restart =>
          \A i \in DOMAIN messages :
             ~Saving("send", messages[i].id) =>
                /\ i \in DOMAIN messages'
                /\ Unflagged(messages'[i]) = Unflagged(messages[i])
                /\ (messages[i].read /\ ~Saving("markRead", 0))
                      => messages'[i].read
                /\ (messages[i].isUnsent /\ \A t \in tasks : t.kind # "unsend")
                      => messages'[i].isUnsent]_vars

C25_FetchToSelfOnly ==
    [][\A c \in Conns, b \in Ids :
          (userId[c] # Nobody /\ GetMessages(c, b)) =>
             /\ Len(sent') = 1
             /\ sent'[1] = Push(c, "messages",
                                getMessagesBetweenUsers(messages, userId[c], b))
             /\ \A e \in DOMAIN sent' : sent'[e].to = c
             /\ UNCHANGED <<messages, clients, userId, readyState, tasks, disk>>]_vars

\* C25 witness: B, whose connection is open, has a message from A in the
\* ledger; A has just fetched the conversation with B and the one push of
\* the step, with that message, went to A's connection.
C25_Witness ==
    /\ Len(messages) >= 1
    /\ messages[1].senderId = "A" /\ messages[1].receiverId = "B"
    /\ ~messages[1].isUnsent
    /\ readyState["c2"] = "open" /\ clients["B"] = "c2"
    /\ Len(sent) = 1 /\ sent[1].to = "c1" /\ sent[1].type = "messages"
    /\ \E x \in DOMAIN sent[1].body : sent[1].body[x] = messages[1]

\* C26: a getUnreadCounts from a connection announced as u pushes one
\* "unreadCounts" event, to that connection and to no other, with the
\* counts of getUnreadCountsForUser(u) and their sum as total.
C26_QueryToSelfOnly ==
    [][\A c \in Conns :
          (userId[c] # Nobody /\ GetUnreadCounts(c)) =>
             LET counts == getUnreadCountsForUser(messages, userId[c])
             IN  /\ Len(sent') = 1
                 /\ sent'[1] = Push(c, "unreadCounts",
                                    [counts |-> counts, total |-> totalUnread(counts)])]_vars

\* No message of the ledger has the id mid.
UnknownId(mid) == \A i \in DOMAIN messages : messages[i].id # mid

\* The ledger's message with the id mid was sent by another than u.
SentByOther(mid, u) ==
    \E i \in DOMAIN messages : messages[i].id = mid /\ messages[i].senderId # u

\* C27: an unsend that fails, because no message has the id or because
\* the message is another user's, has one and the same outcome whichever
\* the cause: the handler ends in that step with no push to anyone and
\* the ledger, like the rest of the state, is as before, for a WebSocket
\* command as for the unsend route.
C27_UnsendFailuresAlike ==
    [][ /\ \A c \in Conns, mid \in MsgIds, r \in Ids :
              ( /\ userId[c] # Nobody
                /\ UnknownId(mid) \/ SentByOther(mid, userId[c])
                /\ UnsendMessage(c, mid, r) )
              => /\ sent' = <<>>
                 /\ UNCHANGED <<messages, tasks, clients, userId, readyState, disk>>
        /\ \A mid \in MsgIds, u \in Ids :
              ( /\ UnknownId(mid) \/ SentByOther(mid, u)
                /\ HttpUnsend(mid, u) )
              => /\ sent' = <<>>
                 /\ UNCHANGED <<messages, tasks, clients, userId, readyState, disk>>
      ]_vars

\* C27 witness: the ledger holds B's message 1, not unsent, and no message
\* 3; A's connection is open, no handler is suspended and the last step,
\* as a failed unsend of either id by A, pushed nothing.
C27_Witness ==
    /\ Len(messages) = 2
    /\ messages[1].senderId = "B" /\ ~messages[1].isUnsent
    /\ messages[2].senderId = "A" /\ messages[2].isUnsent
    /\ SentByOther(1, "A") /\ UnknownId(3)
    /\ readyState["c1"] = "open" /\ userId["c1"] = "A"
    /\ tasks = {} /\ sent = <<>>

\* C28: an auth pushes "userStatus" and "unreadCounts" only; a "message"
\* event is pushed by the step in which the sendMessage handler that
\* created the message ends, a "messageUnsent" by the end of an
\* unsendMessage handler for that message and a "messagesRead" by a
\* markMessagesRead handler, and by no other step; and every push of a
\* step goes to a connection that is open in that step, so that what a
\* user's connection was not pushed then, nothing pushes to it later.
C28_NoReplay ==
    [][ /\ \A c \in Conns, uid \in Ids : Auth(c, uid) => sent' = <<>>
        /\ \A t \in tasks :
              AuthDone(t) =>
                 \A e \in DOMAIN sent' :
                    sent'[e].type \in {"userStatus", "unreadCounts"}
        /\ \A e \in SentOfType("message")' :
              \E t \in tasks :
                 /\ t.kind = "send" /\ t.mid = sent'[e].body.id
                 /\ tasks' = tasks \ {t}
        /\ \A e \in SentOfType("messageUnsent")' :
              \E t \in tasks :
                 /\ t.kind = "unsend" /\ t.mid = sent'[e].body.messageId
                 /\ tasks' = tasks \ {t}
        /\ SentOfType("messagesRead")' # {} =>
              \/ \E t \in tasks : t.kind = "markRead" /\ tasks' = tasks \ {t}
              \/ \E c \in Conns, s \in Ids : MarkMessagesRead(c, s)
        /\ \A e \in DOMAIN sent' : IsOpen(readyState, sent'[e].to)
      ]_vars

\* C28 witness: A's message to B is in the ledger, its handler over; c2
\* then announced B, and the end of that auth has pushed c2 "userStatus"
\* and "unreadCounts" with one unread message, and no "message".
C28_Witness ==
    /\ Len(messages) = 1
    /\ messages[1].senderId = "A" /\ messages[1].receiverId = "B"
    /\ userId["c2"] = "B" /\ clients["B"] = "c2" /\ readyState["c2"] = "open"
    /\ tasks = {}
    /\ SentOfType("message") = {}
    /\ \E e \in SentOfType("userStatus") :
          sent[e].to = "c2" /\ sent[e].body = [userId |-> "B", online |-> TRUE]
    /\ \E e \in SentOfType("unreadCounts") :
          sent[e].to = "c2" /\ sent[e].body.total = 1

\* The directory reports identity u online.
ReportedOnline(us, u) == us[u] # NoUser /\ us[u].status = "online"

\* Identity u is registered to a connection that is OPEN.
LiveRegistered(cl, rs, u) == cl[u] # NoConn /\ rs[cl[u]] = "open"

\* C23: presence does not persist across restarts: right after the process
\* has started the registry is empty and the directory reports online =
\* false for every identity.
C23_OfflineAfterStart ==
    [][Restart =>
          /\ \A k \in Keys : clients'[k] = NoConn
          /\ \A u \in Ids : ~ReportedOnline(users', u)]_vars

\* C29: the registry is the source of truth for the directory: whenever no
\* handler is in progress an identity is reported online if and only if it
\* is registered to a live connection, and its stored status changes only
\* in a step of the announce (auth) or of the close of its connection.
C29_RegistryIsTruth ==
    [][/\ tasks' = {} =>
            \A u \in Ids :
                users'[u] # NoUser =>
                    (ReportedOnline(users', u)
                        <=> LiveRegistered(clients', readyState', u))
       /\ \A u \in Ids :
            (/\ ~Restart
             /\ users[u] # NoUser
             /\ users'[u].status # users[u].status) =>
                \/ \E c \in Conns : Auth(c, u)
                \/ \E c \in Conns : userId[c] = u /\ Close(c)]_vars

\* C30: lastSeen is null from registration on, is first written by the
\* identity's online-to-offline transition, and is written by no
\* offline-to-online transition: while the process runs, a record is
\* created with lastSeen null and lastSeen changes only in a step that
\* takes the status from "online" to "offline".
C30_LastSeenAtOfflineOnly ==
    [][~Restart =>
          \A u \in Ids :
              /\ (users[u] = NoUser /\ users'[u] # NoUser)
                     => users'[u].lastSeen = "null"
              /\ (users[u] # NoUser /\ users'[u].lastSeen # users[u].lastSeen)
                     => (users[u].status = "online"
                         /\ users'[u].status = "offline")]_vars

\* C31: when a connection closes after another connection has announced
\* its identity (it was superseded) and that other connection is open, the
\* identity stays registered to the other connection, and the close
\* handler broadcasts no userStatus(offline) for it.
C31_SupersededCloseIsSilent ==
    [][/\ \A c \in Conns :
            (/\ Close(c)
             /\ userId[c] # Nobody
             /\ clients[userId[c]] # c
             /\ IsOpen(readyState, clients[userId[c]]))
                => clients'[userId[c]] = clients[userId[c]]
       /\ \A t \in tasks :
            (/\ CloseDone(t)
             /\ clients[t.who] # t.ws
             /\ IsOpen(readyState, clients[t.who]))
                => sent' = <<>>]_vars

\* C32: every entry of the clients Map refers to a connection that has not
\* closed and whose ws.userId is the entry's key: a connection that
\* announced a second identity, or that closed, holds no entry but that of
\* its current identity while open.
C32_RegistryConsistent ==
    \A k \in Keys :
        clients[k] # NoConn =>
            /\ readyState[clients[k]] # "closed"
            /\ userId[clients[k]] = k

\* C34: a message enters the ledger only in the step of a sendMessage
\* command, one at a time, and its senderId is the ws.userId the issuing
\* connection has in that step, whatever senderId the command carries.
C34_SenderIsAnnounced ==
    [][messages' # messages =>
          \E c \in Conns :
              /\ readyState[c] = "open"
              /\ userId[c] # Nobody
              /\ Len(messages') = Len(messages) + 1
              /\ SubSeq(messages', 1, Len(messages)) = messages
              /\ messages'[Len(messages')].senderId = userId[c]
              /\ \E t \in tasks' \ tasks :
                    t.kind = "send" /\ t.ws = c /\ t.who = userId[c]]_vars

\* C34 witness: the ledger holds a message that connection c1, announced
\* as A, sent with a command whose senderId field named B; its senderId
\* is A.
C34_Witness ==
    \E i \in DOMAIN messages, t \in tasks :
        /\ messages[i].content = "I am B"
        /\ messages[i].senderId = "A"
        /\ t.kind = "send" /\ t.mid = messages[i].id
        /\ t.ws = "c1" /\ userId["c1"] = "A"

\* C35: a "message" push of m goes to the connection that issued the
\* command or to a connection whose ws.userId is m.senderId or
\* m.receiverId, and a "messages" answer holds only messages of which the
\* connection's ws.userId is the sender or the receiver: no connection of
\* a third identity gets the content of m.
C35_Confined ==
    [][\A e \in DOMAIN sent' :
          LET c == sent'[e].to
              body == sent'[e].body
          IN  /\ sent'[e].type = "message" =>
                    \/ userId'[c] \in {body.senderId, body.receiverId}
                    \/ \E t \in tasks \ tasks' : t.kind = "send" /\ t.ws = c
              /\ sent'[e].type = "messages" =>
                    \A i \in DOMAIN body :
                        userId'[c] \in {body[i].senderId, body[i].receiverId}
      ]_vars

\* C36: the pushes of two messages that one connection sent to the same
\* receiver are made in the order of the sends: when the handler of the
\* later message makes its pushes, the handler of the earlier one is no
\* longer waiting for its save.
C36_PairOrder ==
    [][\A t \in tasks :
          SendDone(t) =>
              ~\E u \in tasks :
                  /\ u.kind = "send"
                  /\ u.ws = t.ws /\ u.other = t.other
                  /\ u.mid < t.mid]_vars

\* C39: unsent is terminal: an unsendMessage command of the sender for a
\* message that is unsent already leaves the ledger as it is, starts no
\* save and pushes nothing, at once or when a save resolves, so that no
\* second "messageUnsent" is pushed for the message.
C39_UnsentIsTerminal ==
    [][\A c \in Conns, mid \in MsgIds, r \in Ids :
          (/\ UnsendMessage(c, mid, r)
           /\ userId[c] # Nobody
           /\ FindUnsend(messages, mid, userId[c]) # 0
           /\ IsUnsentId(messages, mid))
              => /\ messages' = messages
                 /\ tasks' = tasks
                 /\ sent' = <<>>]_vars

\* C33: no message is lost from the in-memory ledger while the process
\* runs: in every step but a restart the ledger keeps the messages it had,
\* in their places, also when storage calls overlap the first init().
C33_NoMessageLost ==
    [][~Restart =>
          /\ Len(messages') >= Len(messages)
          /\ \A i \in DOMAIN messages : messages'[i].id = messages[i].id]_vars

\* C37: whenever no handler is in progress, every user whose registered
\* connection is open and has been sent an "unreadCounts" was last sent
\* the counts that getUnreadCountsForUser gives for the ledger as it is.
C37_BadgeConsistent ==
    tasks = {} =>
        \A u \in Ids :
            (IsOpen(readyState, clients[u])
             /\ told.counts[clients[u]] # NotTold)
                => told.counts[clients[u]].counts
                       = getUnreadCountsForUser(messages, u)

\* C38: whenever no handler is in progress, the last "userStatus" about
\* a user agrees with the clients Map: when the last one that was sent to
\* any connection says offline, the Map holds no entry for the user. (A
\* userStatus that found no open connection was sent to nobody, so the
\* last one sent may say online after the user has left.)
C38_EventsMatchRegistry ==
    tasks = {} =>
        \A u \in Ids :
            told.online[u] = "offline" => clients[u] = NoConn

====
